---- MODULE Spec2Model ----
(***************************************************************************)
(* BattleGame: the turn queues (BattleQueue, RestrictedBattleQueue), the   *)
(* skills that requeue characters, and the two minimax engines             *)
(* (get_state_score / RecursiveMinimax, get_state_score_iterative /        *)
(* IterativeMinimax).                                                      *)
(*                                                                         *)
(* Python objects live in a heap: heap.ch is the sequence of Character     *)
(* objects, heap.bq the sequence of queue objects; an object's identity is *)
(* its index, None is 0.  Every operation takes the heap and returns a     *)
(* result record [h, ret, exc]: the heap after the call, the value         *)
(* returned, and the name of the exception raised ("" when none).          *)
(***************************************************************************)
EXTENDS Integers, Sequences, FiniteSets, TLC

VARIABLES heap, last, after, run, ahead

vars == <<heap, last, after, run, ahead>>

\* Python's None, as an object reference.
None == 0

\* ---------------------------------------------------------------- bounds
\* Longest entry sequence the Add action builds.
MaxLen == 3
\* Number of calls made on a queue and on its copy once the copy is taken.
MaxAfterCopy == 2
\* The while loop of the iterative engine is run for at most 2^MaxLoopLog
\* iterations.
MaxLoopLog == 12

\* ------------------------------------------------------- result records
Ret(h, v) == [h |-> h, ret |-> v, exc |-> ""]

Raise(h, e) == [h |-> h, ret |-> None, exc |-> e]

\* Sequencing of two Python statements: an exception raised by the first
\* propagates and the second is not run.
Then(r, next) == IF r.exc # "" THEN r ELSE next

\* x = <call>; <the statements that follow>: the statements K that follow
\* are run on the result r of the call unless the call raised.
Bind(r, K(_)) == IF r.exc # "" THEN r ELSE K(r)

\* x = <expression>; <the statements that follow>
Let(v, K(_)) == K(v)

\* ------------------------------------------------------------- skills
\* Skill.__init__(cost, damage) as called by each concrete skill.
get_sp_cost(skill) ==
    CASE skill = "MageAttack" -> 5
      [] skill = "MageSpecial" -> 30
      [] skill = "RogueAttack" -> 3
      [] skill = "RogueSpecial" -> 10
      [] skill = "VampireAttack" -> 15
      [] skill = "VampireSpecial" -> 20
      [] skill = "SorcererAttack" -> 15
      [] skill = "SorcererSpecial" -> 20

get_damage(skill) ==
    CASE skill = "MageAttack" -> 20
      [] skill = "MageSpecial" -> 40
      [] skill = "RogueAttack" -> 15
      [] skill = "RogueSpecial" -> 20
      [] skill = "VampireAttack" -> 20
      [] skill = "VampireSpecial" -> 30
      [] skill = "SorcererAttack" -> 0
      [] skill = "SorcererSpecial" -> 25

\* ---------------------------------------------------------- characters
\* The Character classes (a2_characters.py) are not among the sources; they
\* are modelled from the capability interface of the specification and from
\* the doctests of the sources that use them.
Classes == {"Rogue", "Mage", "Vampire"}

\* Character._skills: the skill behind each move token.
skills(cls, token) ==
    CASE cls = "Rogue" -> IF token = "A" THEN "RogueAttack" ELSE "RogueSpecial"
      [] cls = "Mage" -> IF token = "A" THEN "MageAttack" ELSE "MageSpecial"
      [] cls = "Vampire" -> IF token = "A" THEN "VampireAttack" ELSE "VampireSpecial"
      [] cls = "Sorcerer" -> IF token = "A" THEN "SorcererAttack" ELSE "SorcererSpecial"

get_defense(cls) ==
    CASE cls = "Rogue" -> 10
      [] cls = "Mage" -> 8
      [] cls = "Vampire" -> 3
      [] cls = "Sorcerer" -> 10

get_hp(h, c) == h.ch[c].hp

get_sp(h, c) == h.ch[c].sp

set_hp(h, c, new_hp) == [h EXCEPT !.ch[c].hp = new_hp]

\* available_moves(): the basic action, then the special action, each when
\* the resource pool covers its cost; empty when out of resources.
get_available_actions(h, c) ==
    (IF h.ch[c].sp >= get_sp_cost(skills(h.ch[c].cls, "A")) THEN <<"A">> ELSE <<>>)
    \o (IF h.ch[c].sp >= get_sp_cost(skills(h.ch[c].cls, "S")) THEN <<"S">> ELSE <<>>)

\* A variant of reduce_sp under which a move costs the actor nothing.
reduce_sp_free(h, c, cost) == h

reduce_sp(h, c, cost) == [h EXCEPT !.ch[c].sp = @ - cost]

\* Damage is reduced by the target's defense; health never drops below 0.
apply_damage(h, c, damage) ==
    LET dealt == IF damage > get_defense(h.ch[c].cls)
                 THEN damage - get_defense(h.ch[c].cls) ELSE 0
    IN [h EXCEPT !.ch[c].hp = IF @ > dealt THEN @ - dealt ELSE 0]

\* clone(new_queue): a new Character object with the same class, health and
\* resources, bound to new_battle_queue, its enemy left unset.  The new
\* object is the last of the heap.
Character_copy(h, c, new_battle_queue) ==
    LET obj == [cls |-> h.ch[c].cls, hp |-> h.ch[c].hp, sp |-> h.ch[c].sp,
                enemy |-> None, battle_queue |-> new_battle_queue]
    IN Ret([h EXCEPT !.ch = Append(@, obj)], Len(h.ch) + 1)

\* ------------------------------------------------------------- queues
\* BattleQueue() / RestrictedBattleQueue(): a new queue object, the last of
\* the heap.
NewQueue(h, kind) ==
    LET obj == [kind |-> kind, content |-> <<>>, p1 |-> None, p2 |-> None,
                able_to_add |-> <<>>]
    IN Ret([h EXCEPT !.bq = Append(@, obj)], Len(h.bq) + 1)

\* character in self._content
InContent(h, q, c) == \E i \in 1..Len(h.bq[q].content) : h.bq[q].content[i] = c

RECURSIVE BattleQueue_clean_queue(_, _)
BattleQueue_clean_queue(h, q) ==
    IF h.bq[q].content # <<>>
       /\ get_available_actions(h, Head(h.bq[q].content)) = <<>>
    THEN BattleQueue_clean_queue([h EXCEPT !.bq[q].content = Tail(@)], q)
    ELSE Ret(h, None)

RECURSIVE RestrictedBattleQueue_clean_queue(_, _)
RestrictedBattleQueue_clean_queue(h, q) ==
    IF h.bq[q].content # <<>>
       /\ get_available_actions(h, Head(h.bq[q].content)) = <<>>
    THEN LET h1 == [h EXCEPT !.bq[q].content = Tail(@)]
         IN IF h1.bq[q].able_to_add = <<>>
            THEN Raise(h1, "IndexError")
            ELSE RestrictedBattleQueue_clean_queue(
                     [h1 EXCEPT !.bq[q].able_to_add = Tail(@)], q)
    ELSE Ret(h, None)

\* A purge that stops after the first spent actor.
clean_queue_once(h, q) ==
    IF h.bq[q].content # <<>>
       /\ get_available_actions(h, Head(h.bq[q].content)) = <<>>
    THEN Ret([h EXCEPT !.bq[q].content = Tail(@),
                       !.bq[q].able_to_add = IF @ = <<>> THEN @ ELSE Tail(@)], None)
    ELSE Ret(h, None)

\* A purge that removes nothing.
clean_queue_never(h, q) == Ret(h, None)

clean_queue(h, q) ==
    IF h.bq[q].kind = "restricted"
    THEN RestrictedBattleQueue_clean_queue(h, q)
    ELSE BattleQueue_clean_queue(h, q)

\* A variant of the base add that caches the participants anew at every add.
BattleQueue_add_recache(h, q, character) ==
    Ret([h EXCEPT !.bq[q].content = Append(@, character),
                  !.bq[q].p1 = character,
                  !.bq[q].p2 = h.ch[character].enemy], None)

\* A variant of the base add that puts the entry at the front.
BattleQueue_add_front(h, q, character) ==
    LET h1 == [h EXCEPT !.bq[q].content = <<character>> \o @]
    IN IF h1.bq[q].p1 = None
       THEN Ret([h1 EXCEPT !.bq[q].p1 = character,
                           !.bq[q].p2 = h.ch[character].enemy], None)
       ELSE Ret(h1, None)

BattleQueue_add(h, q, character) ==
    LET h1 == [h EXCEPT !.bq[q].content = Append(@, character)]
    IN IF h1.bq[q].p1 = None
       THEN Ret([h1 EXCEPT !.bq[q].p1 = character,
                           !.bq[q].p2 = h.ch[character].enemy], None)
       ELSE Ret(h1, None)

\* The number of entries equal to character whose flag is True.
CountAbleToAdd(h, q, character) ==
    Cardinality({i \in 1..Len(h.bq[q].content) :
                    /\ h.bq[q].content[i] = character
                    /\ i <= Len(h.bq[q].able_to_add)
                    /\ h.bq[q].able_to_add[i]})

\* Variants of the restricted add, each departing from the code at one
\* branch; the properties of the admission rule are checked to tell the
\* code from each of them.
\* The cap is taken at three admitted entries instead of two.
RestrictedBattleQueue_add_cap3(h, q, character) ==
    LET h1 == IF h.bq[q].p1 = None
              THEN [h EXCEPT !.bq[q].p1 = character,
                             !.bq[q].p2 = h.ch[character].enemy]
              ELSE h
        appended(flag) == [h1 EXCEPT !.bq[q].content = Append(@, character),
                                     !.bq[q].able_to_add = Append(@, flag)]
    IN IF ~InContent(h1, q, character)
       THEN Ret(appended(TRUE), None)
       ELSE IF h1.bq[q].able_to_add = <<>>
       THEN Raise(h1, "IndexError")
       ELSE IF ~h1.bq[q].able_to_add[1]
       THEN Ret(h1, None)
       ELSE IF h1.bq[q].content[1] # character
       THEN Ret(appended(FALSE), None)
       ELSE Ret(appended(CountAbleToAdd(h1, q, character) < 3), None)

\* The front entry's flag is consulted before the first-append test.
RestrictedBattleQueue_add_flag_first(h, q, character) ==
    LET h1 == IF h.bq[q].p1 = None
              THEN [h EXCEPT !.bq[q].p1 = character,
                             !.bq[q].p2 = h.ch[character].enemy]
              ELSE h
        appended(flag) == [h1 EXCEPT !.bq[q].content = Append(@, character),
                                     !.bq[q].able_to_add = Append(@, flag)]
    IN IF h1.bq[q].able_to_add # <<>> /\ ~h1.bq[q].able_to_add[1]
       THEN Ret(h1, None)
       ELSE IF ~InContent(h1, q, character)
       THEN Ret(appended(TRUE), None)
       ELSE IF h1.bq[q].content[1] # character
       THEN Ret(appended(FALSE), None)
       ELSE Ret(appended(CountAbleToAdd(h1, q, character) < 2), None)

\* The refusal is left out: an entry is appended, without the right to
\* add, when the front entry has lost that right.
RestrictedBattleQueue_add_no_refusal(h, q, character) ==
    LET h1 == IF h.bq[q].p1 = None
              THEN [h EXCEPT !.bq[q].p1 = character,
                             !.bq[q].p2 = h.ch[character].enemy]
              ELSE h
        appended(flag) == [h1 EXCEPT !.bq[q].content = Append(@, character),
                                     !.bq[q].able_to_add = Append(@, flag)]
    IN IF ~InContent(h1, q, character)
       THEN Ret(appended(TRUE), None)
       ELSE IF h1.bq[q].able_to_add = <<>>
       THEN Raise(h1, "IndexError")
       ELSE IF ~h1.bq[q].able_to_add[1]
       THEN Ret(appended(FALSE), None)
       ELSE IF h1.bq[q].content[1] # character
       THEN Ret(appended(FALSE), None)
       ELSE Ret(appended(CountAbleToAdd(h1, q, character) < 2), None)

\* An entry enqueued by the other actor is counted like one of the front
\* actor's own.
RestrictedBattleQueue_add_other_counts(h, q, character) ==
    LET h1 == IF h.bq[q].p1 = None
              THEN [h EXCEPT !.bq[q].p1 = character,
                             !.bq[q].p2 = h.ch[character].enemy]
              ELSE h
        appended(flag) == [h1 EXCEPT !.bq[q].content = Append(@, character),
                                     !.bq[q].able_to_add = Append(@, flag)]
    IN IF ~InContent(h1, q, character)
       THEN Ret(appended(TRUE), None)
       ELSE IF h1.bq[q].able_to_add = <<>>
       THEN Raise(h1, "IndexError")
       ELSE IF ~h1.bq[q].able_to_add[1]
       THEN Ret(h1, None)
       ELSE Ret(appended(CountAbleToAdd(h1, q, character) < 2), None)

\* The front actor's own entry is always appended with the right to add.
RestrictedBattleQueue_add_self_uncapped(h, q, character) ==
    LET h1 == IF h.bq[q].p1 = None
              THEN [h EXCEPT !.bq[q].p1 = character,
                             !.bq[q].p2 = h.ch[character].enemy]
              ELSE h
        appended(flag) == [h1 EXCEPT !.bq[q].content = Append(@, character),
                                     !.bq[q].able_to_add = Append(@, flag)]
    IN IF ~InContent(h1, q, character)
       THEN Ret(appended(TRUE), None)
       ELSE IF h1.bq[q].able_to_add = <<>>
       THEN Raise(h1, "IndexError")
       ELSE IF ~h1.bq[q].able_to_add[1]
       THEN Ret(h1, None)
       ELSE IF h1.bq[q].content[1] # character
       THEN Ret(appended(FALSE), None)
       ELSE Ret(appended(TRUE), None)

RestrictedBattleQueue_add(h, q, character) ==
    LET h1 == IF h.bq[q].p1 = None
              THEN [h EXCEPT !.bq[q].p1 = character,
                             !.bq[q].p2 = h.ch[character].enemy]
              ELSE h
        appended(flag) == [h1 EXCEPT !.bq[q].content = Append(@, character),
                                     !.bq[q].able_to_add = Append(@, flag)]
    IN IF ~InContent(h1, q, character)
       THEN Ret(appended(TRUE), None)
       ELSE IF h1.bq[q].able_to_add = <<>>
       THEN Raise(h1, "IndexError")
       ELSE IF ~h1.bq[q].able_to_add[1]
       THEN Ret(h1, None)
       ELSE IF h1.bq[q].content[1] # character
       THEN Ret(appended(FALSE), None)
       ELSE Ret(appended(CountAbleToAdd(h1, q, character) < 2), None)

add(h, q, character) ==
    IF h.bq[q].kind = "restricted"
    THEN RestrictedBattleQueue_add(h, q, character)
    ELSE BattleQueue_add(h, q, character)

\* remove() that pops the front entry without purging first.
BattleQueue_remove_no_purge(h, q) ==
    IF h.bq[q].content = <<>>
    THEN Raise(h, "IndexError")
    ELSE Ret([h EXCEPT !.bq[q].content = Tail(@)], Head(h.bq[q].content))

BattleQueue_remove(h, q) ==
    Bind(clean_queue(h, q), LAMBDA r :
        IF r.h.bq[q].content = <<>>
        THEN Raise(r.h, "IndexError")
        ELSE Ret([r.h EXCEPT !.bq[q].content = Tail(@)], Head(r.h.bq[q].content)))

\* A variant of the restricted remove that leaves the flag ledger alone.
RestrictedBattleQueue_remove_keeps_flag(h, q) ==
    Bind(clean_queue(h, q), LAMBDA r :
        IF r.h.bq[q].content = <<>>
        THEN Raise(r.h, "IndexError")
        ELSE Ret([r.h EXCEPT !.bq[q].content = Tail(@)], Head(r.h.bq[q].content)))

\* A variant of the restricted remove that drops the flag at the back of
\* the ledger.
RestrictedBattleQueue_remove_back_flag(h, q) ==
    Bind(clean_queue(h, q), LAMBDA r :
        IF r.h.bq[q].able_to_add = <<>>
        THEN Raise(r.h, "IndexError")
        ELSE IF r.h.bq[q].content = <<>>
        THEN Raise([r.h EXCEPT !.bq[q].able_to_add = Tail(@)], "IndexError")
        ELSE Ret([r.h EXCEPT !.bq[q].able_to_add = SubSeq(@, 1, Len(@) - 1),
                             !.bq[q].content = Tail(@)],
                 Head(r.h.bq[q].content)))

RestrictedBattleQueue_remove(h, q) ==
    Bind(clean_queue(h, q), LAMBDA r :
        IF r.h.bq[q].able_to_add = <<>>
        THEN Raise(r.h, "IndexError")
        ELSE IF r.h.bq[q].content = <<>>
        THEN Raise([r.h EXCEPT !.bq[q].able_to_add = Tail(@)], "IndexError")
        ELSE Ret([r.h EXCEPT !.bq[q].able_to_add = Tail(@),
                             !.bq[q].content = Tail(@)],
                 Head(r.h.bq[q].content)))

remove(h, q) ==
    IF h.bq[q].kind = "restricted"
    THEN RestrictedBattleQueue_remove(h, q)
    ELSE BattleQueue_remove(h, q)

is_empty(h, q) ==
    Bind(clean_queue(h, q), LAMBDA r : Ret(r.h, r.h.bq[q].content = <<>>))

\* peek() with nothing to fall back on when the purge empties the queue.
peek_without_fallback(h, q) ==
    Bind(clean_queue(h, q), LAMBDA r :
        IF r.h.bq[q].content # <<>>
        THEN Ret(r.h, Head(r.h.bq[q].content))
        ELSE Ret(r.h, None))

peek(h, q) ==
    Bind(clean_queue(h, q), LAMBDA r :
        IF r.h.bq[q].content # <<>>
        THEN Ret(r.h, Head(r.h.bq[q].content))
        ELSE Ret(r.h, r.h.bq[q].p1))

\* The game is over only when the queue is empty.
is_over_when_empty(h, q) == is_empty(h, q)

is_over(h, q) ==
    Bind(is_empty(h, q), LAMBDA r :
        IF r.ret
        THEN Ret(r.h, TRUE)
        ELSE IF r.h.bq[q].p1 = None
        THEN Raise(r.h, "AttributeError")
        ELSE IF get_hp(r.h, r.h.bq[q].p1) = 0
        THEN Ret(r.h, TRUE)
        ELSE IF r.h.bq[q].p2 = None
        THEN Raise(r.h, "AttributeError")
        ELSE Ret(r.h, get_hp(r.h, r.h.bq[q].p2) = 0))

BattleQueue_get_winner(h, q) ==
    Bind(is_over(h, q), LAMBDA r :
        IF ~r.ret
        THEN Ret(r.h, None)
        ELSE IF r.h.bq[q].p1 = None
        THEN Raise(r.h, "AttributeError")
        ELSE IF get_hp(r.h, r.h.bq[q].p1) = 0
        THEN Ret(r.h, r.h.bq[q].p2)
        ELSE IF r.h.bq[q].p2 = None
        THEN Raise(r.h, "AttributeError")
        ELSE IF get_hp(r.h, r.h.bq[q].p2) = 0
        THEN Ret(r.h, r.h.bq[q].p1)
        ELSE Ret(r.h, None))

\* The last entry of content, whatever its health.
LastAlive_any_health(h, content) ==
    IF content = <<>> THEN None ELSE content[Len(content)]

\* return_char of RestrictedBattleQueue.get_winner: the last entry of
\* content whose health is not 0, None when there is none.
RECURSIVE LastAlive(_, _)
LastAlive(h, content) ==
    IF content = <<>>
    THEN None
    ELSE IF get_hp(h, content[Len(content)]) # 0
    THEN content[Len(content)]
    ELSE LastAlive(h, SubSeq(content, 1, Len(content) - 1))

\* Each of the three exits after the loops returns return_char when it is
\* not None and None otherwise, so the counters i_hp and i_sp do not decide
\* the value returned.
RestrictedBattleQueue_get_winner(h, q) ==
    IF h.bq[q].content = <<>>
    THEN Ret(h, None)
    ELSE Bind(is_over(h, q), LAMBDA r :
             IF ~r.ret
             THEN Ret(r.h, None)
             ELSE Ret(r.h, LastAlive(r.h, r.h.bq[q].content)))

get_winner(h, q) ==
    IF h.bq[q].kind = "restricted"
    THEN RestrictedBattleQueue_get_winner(h, q)
    ELSE BattleQueue_get_winner(h, q)

\* A variant of the replay loop that adds the entries of the original
\* themselves, not their clones, to the new queue.
RECURSIVE Replay_shallow(_, _, _, _, _, _)
Replay_shallow(r, q, i, new_battle_queue, p1_copy, p2_copy) ==
    IF r.exc # "" \/ i > Len(r.h.bq[q].content)
    THEN r
    ELSE Replay_shallow(add(r.h, new_battle_queue, r.h.bq[q].content[i]),
                        q, i + 1, new_battle_queue, p1_copy, p2_copy)

\* The replay loop of copy: each entry of the original is added to the new
\* queue as p1_copy when it is the original's _p1 and as p2_copy otherwise.
RECURSIVE Replay(_, _, _, _, _, _)
Replay(r, q, i, new_battle_queue, p1_copy, p2_copy) ==
    IF r.exc # "" \/ i > Len(r.h.bq[q].content)
    THEN r
    ELSE Replay(add(r.h, new_battle_queue,
                    IF r.h.bq[q].content[i] = r.h.bq[q].p1 THEN p1_copy ELSE p2_copy),
                q, i + 1, new_battle_queue, p1_copy, p2_copy)

\* The clones of the two cached participants, linked as each other's enemy.
CopyParticipants(h, q, new_battle_queue) ==
    IF h.bq[q].p1 = None \/ h.bq[q].p2 = None
    THEN Raise(h, "AttributeError")
    ELSE Bind(Character_copy(h, h.bq[q].p1, new_battle_queue), LAMBDA c1 :
         Bind(Character_copy(c1.h, h.bq[q].p2, new_battle_queue), LAMBDA c2 :
             Ret([c2.h EXCEPT !.ch[c1.ret].enemy = c2.ret,
                              !.ch[c2.ret].enemy = c1.ret],
                 <<c1.ret, c2.ret>>)))

BattleQueue_copy(h, q) ==
    Bind(NewQueue(h, "base"), LAMBDA new_battle_queue :
    Bind(CopyParticipants(new_battle_queue.h, q, new_battle_queue.ret), LAMBDA c :
    Bind(add(c.h, new_battle_queue.ret, c.ret[1]), LAMBDA a :
    Bind(is_empty(a.h, new_battle_queue.ret), LAMBDA e :
    Bind(IF ~e.ret THEN remove(e.h, new_battle_queue.ret) ELSE e, LAMBDA m :
    Bind(Replay(m, q, 1, new_battle_queue.ret, c.ret[1], c.ret[2]), LAMBDA f :
        Ret(f.h, new_battle_queue.ret)))))))

RestrictedBattleQueue_copy(h, q) ==
    Bind(NewQueue(h, "restricted"), LAMBDA new_battle_queue :
    Bind(CopyParticipants(new_battle_queue.h, q, new_battle_queue.ret), LAMBDA c :
    Bind(Replay(c, q, 1, new_battle_queue.ret, c.ret[1], c.ret[2]), LAMBDA f :
        Ret([f.h EXCEPT !.bq[new_battle_queue.ret].able_to_add = h.bq[q].able_to_add],
            new_battle_queue.ret))))

copy(h, q) ==
    IF h.bq[q].kind = "restricted"
    THEN RestrictedBattleQueue_copy(h, q)
    ELSE BattleQueue_copy(h, q)

\* ------------------------------------------------- skill decision tree
\* A SkillDecisionTree is held as the sequence of its nodes, node 1 being
\* the root: each node has the skill it holds (value), the name of its
\* condition function, its priority number and the indices of its children.
TreeNode(value, condition, priority, children) ==
    [value |-> value, condition |-> condition, priority |-> priority,
     children |-> children]

\* The condition functions of create_default_tree.
condition(f, h, caster, target) ==
    CASE f = "f1" -> get_sp(h, caster) > 20
      [] f = "f2" -> get_hp(h, target) < 30
      [] f = "f4" -> get_sp(h, target) > 40
      [] f = "f5" -> get_hp(h, caster) > 90
      [] f = "f6" -> get_hp(h, caster) > 50
      [] f = "f_leaf" -> TRUE

create_default_tree ==
    <<TreeNode("MageAttack", "f6", 5, <<2, 5, 7>>),
      TreeNode("MageAttack", "f1", 3, <<3>>),
      TreeNode("RogueSpecial", "f2", 4, <<4>>),
      TreeNode("RogueAttack", "f_leaf", 6, <<>>),
      TreeNode("MageSpecial", "f4", 2, <<6>>),
      TreeNode("RogueAttack", "f_leaf", 8, <<>>),
      TreeNode("RogueAttack", "f5", 1, <<8>>),
      TreeNode("RogueSpecial", "f_leaf", 7, <<>>)>>

\* A variant of get_priorities that goes down to the leaves whatever the
\* conditions say.
RECURSIVE get_priorities_all_leaves(_, _, _, _, _)
RECURSIVE children_priorities_all_leaves(_, _, _, _, _)
children_priorities_all_leaves(t, children, h, caster, target) ==
    IF children = <<>>
    THEN <<>>
    ELSE get_priorities_all_leaves(t, Head(children), h, caster, target)
         \o children_priorities_all_leaves(t, Tail(children), h, caster, target)

get_priorities_all_leaves(t, n, h, caster, target) ==
    IF t[n].children = <<>>
    THEN <<t[n].priority>>
    ELSE children_priorities_all_leaves(t, t[n].children, h, caster, target)

RECURSIVE get_priorities(_, _, _, _, _)
RECURSIVE children_priorities(_, _, _, _, _)
\* sum([c.get_priorities(caster, target) for c in self.children], [])
children_priorities(t, children, h, caster, target) ==
    IF children = <<>>
    THEN <<>>
    ELSE get_priorities(t, Head(children), h, caster, target)
         \o children_priorities(t, Tail(children), h, caster, target)

get_priorities(t, n, h, caster, target) ==
    IF t[n].children = <<>>
    THEN <<t[n].priority>>
    ELSE IF condition(t[n].condition, h, caster, target)
    THEN children_priorities(t, t[n].children, h, caster, target)
    ELSE <<t[n].priority>>

RECURSIVE find_skill_by_priority(_, _, _)
RECURSIVE children_skills_by_priority(_, _, _)
\* sum([c.find_skill_by_priority(priority_num) for c in self.children], [])
children_skills_by_priority(t, children, priority_num) ==
    IF children = <<>>
    THEN <<>>
    ELSE find_skill_by_priority(t, Head(children), priority_num)
         \o children_skills_by_priority(t, Tail(children), priority_num)

\* The list of the skills of the nodes of subtree n that have the priority
\* number, in the order the nodes are met.
find_skill_by_priority(t, n, priority_num) ==
    IF t[n].priority = priority_num
    THEN <<t[n].value>>
    ELSE children_skills_by_priority(t, t[n].children, priority_num)

\* priority = min(self.get_priorities(caster, target)), a ValueError on the
\* empty list; skill = self.find_skill_by_priority(priority); skill[0].
pick_skill(t, h, caster, target) ==
    Let(get_priorities(t, 1, h, caster, target), LAMBDA priorities :
        IF priorities = <<>>
        THEN Raise(h, "ValueError")
        ELSE Let(CHOOSE x \in {priorities[i] : i \in 1..Len(priorities)} :
                     \A i \in 1..Len(priorities) : x <= priorities[i],
                 LAMBDA priority :
            Let(find_skill_by_priority(t, 1, priority), LAMBDA skill :
                IF skill = <<>>
                THEN Raise(h, "IndexError")
                ELSE Ret(h, skill[1]))))

\* ------------------------------------------------------- skill effects
_deal_damage(h, skill, caster, target) ==
    apply_damage(reduce_sp(h, caster, get_sp_cost(skill)), target, get_damage(skill))

\* caster.battle_queue.add(character)
QueueAdd(r, caster, character) ==
    Then(r, add(r.h, r.h.ch[caster].battle_queue, character))

NormalAttack_use(h, skill, caster, target) ==
    QueueAdd(Ret(_deal_damage(h, skill, caster, target), None), caster, caster)

MageSpecial_use(h, skill, caster, target) ==
    QueueAdd(QueueAdd(Ret(_deal_damage(h, skill, caster, target), None),
                      caster, target),
             caster, caster)

RogueSpecial_use(h, skill, caster, target) ==
    QueueAdd(QueueAdd(Ret(_deal_damage(h, skill, caster, target), None),
                      caster, caster),
             caster, caster)

\* The health the Vampire sets for itself after the damage is dealt in h.
VampireHeal(h, skill, caster, target, orig_target_hp) ==
    set_hp(h, caster,
           IF get_hp(h, target) = 0
           THEN get_hp(h, caster) + orig_target_hp
           ELSE get_hp(h, caster) + (get_damage(skill) - get_defense(h.ch[target].cls)))

VampireAttack_use(h, skill, caster, target) ==
    Bind(NormalAttack_use(h, skill, caster, target), LAMBDA r :
        Ret(VampireHeal(r.h, skill, caster, target, get_hp(h, target)), None))

VampireSpecial_use(h, skill, caster, target) ==
    QueueAdd(QueueAdd(QueueAdd(
        Ret(VampireHeal(_deal_damage(h, skill, caster, target), skill, caster,
                        target, get_hp(h, target)), None),
        caster, caster), caster, caster), caster, target)

\* skill_to_use = caster.tree.pick_skill(caster, target): the caster pays
\* the cost of its own attack and deals the damage of the skill picked.
\* The tree the Sorcerers were given (set_skill_decision_tree) is h.tree.
SorcererAttack_use(h, skill, caster, target) ==
    Bind(pick_skill(h.tree, h, caster, target), LAMBDA skill_to_use :
        QueueAdd(Ret(apply_damage(reduce_sp(skill_to_use.h, caster, get_sp_cost(skill)),
                                  target, get_damage(skill_to_use.ret)), None),
                 caster, caster))

\* while not caster.battle_queue.is_empty(): caster.battle_queue.remove()
RECURSIVE EmptyQueue(_, _)
EmptyQueue(h, q) ==
    Bind(is_empty(h, q), LAMBDA e :
        IF e.ret
        THEN Ret(e.h, None)
        ELSE Bind(remove(e.h, q), LAMBDA m : EmptyQueue(m.h, q)))

\* A variant of the Sorcerer's special that leaves the queue as it finds it
\* before the three adds.
SorcererSpecial_use_no_reset(h, skill, caster, target) ==
    QueueAdd(QueueAdd(QueueAdd(Ret(_deal_damage(h, skill, caster, target), None),
                               caster, caster), caster, target), caster, caster)

SorcererSpecial_use(h, skill, caster, target) ==
    Bind(EmptyQueue(_deal_damage(h, skill, caster, target), h.ch[caster].battle_queue),
         LAMBDA e :
        QueueAdd(QueueAdd(QueueAdd(Ret(e.h, None), caster, caster), caster, target),
                 caster, caster))

use(h, skill, caster, target) ==
    CASE skill = "MageAttack" -> NormalAttack_use(h, skill, caster, target)
      [] skill = "RogueAttack" -> NormalAttack_use(h, skill, caster, target)
      [] skill = "MageSpecial" -> MageSpecial_use(h, skill, caster, target)
      [] skill = "RogueSpecial" -> RogueSpecial_use(h, skill, caster, target)
      [] skill = "VampireAttack" -> VampireAttack_use(h, skill, caster, target)
      [] skill = "VampireSpecial" -> VampireSpecial_use(h, skill, caster, target)
      [] skill = "SorcererAttack" -> SorcererAttack_use(h, skill, caster, target)
      [] skill = "SorcererSpecial" -> SorcererSpecial_use(h, skill, caster, target)

\* Character.attack() and Character.special_attack(): the character uses
\* its basic or its special skill on its enemy.
attack(h, c) == use(h, skills(h.ch[c].cls, "A"), c, h.ch[c].enemy)

special_attack(h, c) == use(h, skills(h.ch[c].cls, "S"), c, h.ch[c].enemy)

\* battle_queue.remove().attack() / battle_queue.remove().special_attack()
RemoveAndMove(h, q, token) ==
    Bind(remove(h, q), LAMBDA r :
        IF token = "A" THEN attack(r.h, r.ret) ELSE special_attack(r.h, r.ret))

\* ------------------------------------------------------ recursive engine
\* Objects created during a call and referenced only by its locals are
\* unreachable once it returns: the heap of the result keeps the objects of
\* h0 (with whatever the call did to them) and drops the rest.
Collect(r, h0) ==
    [r EXCEPT !.h = [ch |-> SubSeq(r.h.ch, 1, Len(h0.ch)),
                     bq |-> SubSeq(r.h.bq, 1, Len(h0.bq))]]

\* Python's max() of a list of integers; ValueError on the empty list.
RECURSIVE MaxOf(_)
MaxOf(list_) ==
    IF Len(list_) = 1
    THEN list_[1]
    ELSE Let(MaxOf(Tail(list_)), LAMBDA m : IF list_[1] >= m THEN list_[1] ELSE m)

max(h, list_) == IF list_ = <<>> THEN Raise(h, "ValueError") ELSE Ret(h, MaxOf(list_))

\* token in moves
Has(moves, token) == \E i \in 1..Len(moves) : moves[i] = token

\* The score of a queue that is over, with the winner's and the loser's
\* views exchanged.
TerminalScore_exchanged(h, q, first_player) ==
    Bind(get_winner(h, q), LAMBDA w :
        IF w.ret = None
        THEN Ret(w.h, 0)
        ELSE IF w.ret = first_player
        THEN Ret(w.h, get_hp(w.h, w.ret) * (-1))
        ELSE Ret(w.h, get_hp(w.h, w.ret)))

\* The score of a queue that is over, seen by first_player.  get_winner()
\* is called up to three times in the source; after the first call the
\* queue is purged and the later calls return the same character.
TerminalScore(h, q, first_player) ==
    Bind(get_winner(h, q), LAMBDA w :
        IF w.ret = None
        THEN Ret(w.h, 0)
        ELSE IF w.ret = first_player
        THEN Ret(w.h, get_hp(w.h, w.ret))
        ELSE Ret(w.h, get_hp(w.h, w.ret) * (-1)))

RECURSIVE get_state_score(_, _)
\* The two-action branch keeping the sign of both scores.
ScoreTwoMoves_unsigned(h, bq_c) ==
    Bind(copy(h, bq_c), LAMBDA bq_1 :
    Bind(copy(bq_1.h, bq_c), LAMBDA bq_2 :
    Bind(RemoveAndMove(bq_2.h, bq_1.ret, "A"), LAMBDA m1 :
    Bind(RemoveAndMove(m1.h, bq_2.ret, "S"), LAMBDA m2 :
    Bind(get_state_score(m2.h, bq_1.ret), LAMBDA s1 :
    Bind(get_state_score(s1.h, bq_2.ret), LAMBDA s2 :
        Ret(s2.h, <<s1.ret, s2.ret>>)))))))

\* The branch taken when the head has two available actions: the scores of
\* the basic and of the special action, each on its own copy of bq_c.
ScoreTwoMoves(h, bq_c) ==
    Bind(copy(h, bq_c), LAMBDA bq_1 :
    Bind(copy(bq_1.h, bq_c), LAMBDA bq_2 :
    Bind(peek(bq_2.h, bq_1.ret), LAMBDA cur_1 :
    Bind(peek(cur_1.h, bq_2.ret), LAMBDA cur_2 :
    Bind(RemoveAndMove(cur_2.h, bq_1.ret, "A"), LAMBDA m1 :
    Bind(RemoveAndMove(m1.h, bq_2.ret, "S"), LAMBDA m2 :
    Bind(peek(m2.h, bq_1.ret), LAMBDA next_1 :
    Bind(peek(next_1.h, bq_2.ret), LAMBDA next_2 :
    Bind(get_state_score(next_2.h, bq_1.ret), LAMBDA s1 :
    Bind(get_state_score(s1.h, bq_2.ret), LAMBDA s2 :
        Ret(s2.h, <<IF cur_1.ret = next_1.ret THEN s1.ret ELSE s1.ret * (-1),
                    IF cur_2.ret = next_2.ret THEN s2.ret ELSE s2.ret * (-1)>>)
    ))))))))))

\* The one-action branch applying the special action.
ScoreOneMove_special(h, bq_c) ==
    Bind(peek(h, bq_c), LAMBDA cur :
    Bind(RemoveAndMove(cur.h, bq_c, "S"), LAMBDA m :
    Bind(peek(m.h, bq_c), LAMBDA next_ :
    Bind(get_state_score(next_.h, bq_c), LAMBDA sc :
        Ret(sc.h, <<IF cur.ret = next_.ret THEN sc.ret ELSE sc.ret * (-1)>>)))))

\* The branch taken when the head has one available action: the basic
\* action is applied to bq_c itself.
ScoreOneMove(h, bq_c) ==
    Bind(peek(h, bq_c), LAMBDA cur :
    Bind(RemoveAndMove(cur.h, bq_c, "A"), LAMBDA m :
    Bind(peek(m.h, bq_c), LAMBDA next_ :
    Bind(get_state_score(next_.h, bq_c), LAMBDA sc :
        Ret(sc.h, <<IF cur.ret = next_.ret THEN sc.ret ELSE sc.ret * (-1)>>)))))

\* list_ at `return max(list_)` when the queue is not over.
ScoreMoves(h, bq_c, n) ==
    IF n = 2 THEN ScoreTwoMoves(h, bq_c)
    ELSE IF n = 1 THEN ScoreOneMove(h, bq_c)
    ELSE Ret(h, <<>>)

\* The search made on the queue it is given instead of on a copy of it.
get_state_score_in_place(h, battle_queue) ==
    Collect(
        Bind(peek(h, battle_queue), LAMBDA first_player :
        Bind(peek(first_player.h, battle_queue), LAMBDA curr_p :
        Bind(is_over(curr_p.h, battle_queue), LAMBDA o :
            IF o.ret
            THEN TerminalScore(o.h, battle_queue, first_player.ret)
            ELSE Bind(ScoreMoves(o.h, battle_queue,
                                 Len(get_available_actions(o.h, curr_p.ret))),
                      LAMBDA list_ : max(list_.h, list_.ret))))),
        h)

get_state_score(h, battle_queue) ==
    Collect(
        Bind(copy(h, battle_queue), LAMBDA bq_c :
        Bind(peek(bq_c.h, bq_c.ret), LAMBDA first_player :
        Bind(peek(first_player.h, bq_c.ret), LAMBDA curr_p :
        Bind(is_over(curr_p.h, bq_c.ret), LAMBDA o :
            IF o.ret
            THEN TerminalScore(o.h, bq_c.ret, first_player.ret)
            ELSE Bind(ScoreMoves(o.h, bq_c.ret,
                                 Len(get_available_actions(o.h, curr_p.ret))),
                      LAMBDA list_ : max(list_.h, list_.ret)))))),
        h)

\* ------------------------------------------------------ iterative engine
\* The state of the engine is a record it: the heap h, the StateTree
\* objects created so far (nodes; a StateTree's identity is its index), the
\* stack s of StateTree references (its top is its last element), list_,
\* and the exception raised ("" when none).
\* StateTree(bq): children and score are None (the empty tuple) until set
\* (a one-element tuple holding the value).
StateTree(bq) ==
    [bq |-> bq, children |-> <<>>, score |-> <<>>, need_to_mult |-> FALSE]

\* The engine state it after a call that left the heap h and raised e.
After(it, h, e) == [it EXCEPT !.h = h, !.exc = e]

\* bq_x = state.bq.copy() ... StateTree(bq_x) with need_to_mult set: the new
\* StateTree of one available move, the move applied to a copy of the
\* queue of state.
MoveState(h, bq, token) ==
    Bind(copy(h, bq), LAMBDA bq_x :
    Bind(peek(bq_x.h, bq_x.ret), LAMBDA cur :
    Bind(RemoveAndMove(cur.h, bq_x.ret, token), LAMBDA m :
    Bind(peek(m.h, bq_x.ret), LAMBDA next_ :
        Ret(next_.h, [StateTree(bq_x.ret) EXCEPT
                         !.need_to_mult = (cur.ret # next_.ret)])))))

\* One `if token in moves` block: the new StateTree is the last of
\* it.nodes and is appended to the children of state.
ExpandMove(it, state, token) ==
    Bind(it, LAMBDA i :
    Let(MoveState(i.h, i.nodes[state].bq, token), LAMBDA child :
        IF child.exc # ""
        THEN After(i, child.h, child.exc)
        ELSE [i EXCEPT !.h = child.h,
                       !.nodes = [Append(@, child.ret) EXCEPT ![state].children =
                                     IF @ = <<>> THEN <<<<Len(i.nodes) + 1>>>>
                                     ELSE <<Append(@[1], Len(i.nodes) + 1)>>]]))

\* The branch `if state.bq.is_over()`: the state is scored and left off
\* the stack and off list_.
ScoreTerminal(it, state, first_player) ==
    Let(TerminalScore(it.h, it.nodes[state].bq, first_player), LAMBDA w :
        IF w.exc # ""
        THEN After(it, w.h, w.exc)
        ELSE [it EXCEPT !.h = w.h, !.nodes[state].score = <<w.ret>>])

\* A variant of the expansion that leaves the expanded state off the stack.
Expand_children_only(it, state, moves) ==
    Bind(IF Has(moves, "A") THEN ExpandMove(it, state, "A") ELSE it, LAMBDA xa :
    Bind(IF Has(moves, "S") THEN ExpandMove(xa, state, "S") ELSE xa, LAMBDA xs :
        IF xs.nodes[state].children = <<>>
        THEN [xs EXCEPT !.exc = "TypeError"]
        ELSE [xs EXCEPT !.s = @ \o xs.nodes[state].children[1]]))

\* A variant of the expansion that puts the expanded state on the stack
\* above its children.
Expand_parent_on_top(it, state, moves) ==
    Bind(IF Has(moves, "A") THEN ExpandMove(it, state, "A") ELSE it, LAMBDA xa :
    Bind(IF Has(moves, "S") THEN ExpandMove(xa, state, "S") ELSE xa, LAMBDA xs :
        IF xs.nodes[state].children = <<>>
        THEN [xs EXCEPT !.s = Append(@, state), !.exc = "TypeError"]
        ELSE [xs EXCEPT !.s = Append(@ \o xs.nodes[state].children[1], state)]))

\* The branch `if state.children is None`: the state is expanded and put
\* back on the stack below its children.
Expand(it, state, moves) ==
    Bind(IF Has(moves, "A") THEN ExpandMove(it, state, "A") ELSE it, LAMBDA xa :
    Bind(IF Has(moves, "S") THEN ExpandMove(xa, state, "S") ELSE xa, LAMBDA xs :
        IF xs.nodes[state].children = <<>>
        THEN [xs EXCEPT !.s = Append(@, state), !.exc = "TypeError"]
        ELSE [xs EXCEPT !.s = Append(@, state) \o xs.nodes[state].children[1]]))

\* A variant of the fold that takes every child's score as it is, whoever
\* moves next in the child.
ChildScores_unsigned(it, state) ==
    [i \in 1..Len(it.nodes[state].children[1]) |->
        it.nodes[it.nodes[state].children[1][i]].score[1]]

\* The scores of the children of state as the aggregation folds them.
ChildScores(it, state) ==
    [i \in 1..Len(it.nodes[state].children[1]) |->
        IF it.nodes[it.nodes[state].children[1][i]].need_to_mult
        THEN it.nodes[it.nodes[state].children[1][i]].score[1] * (-1)
        ELSE it.nodes[it.nodes[state].children[1][i]].score[1]]

\* The branch `elif state.children is not None`: the state is scored with
\* the largest of its children's scores and the score goes to list_.
Aggregate(it, state) ==
    IF \E i \in 1..Len(it.nodes[state].children[1]) :
           it.nodes[it.nodes[state].children[1][i]].score = <<>>
    THEN After(it, it.h, "TypeError")
    ELSE Let(max(it.h, ChildScores(it, state)), LAMBDA m :
             IF m.exc # ""
             THEN After(it, it.h, m.exc)
             ELSE [it EXCEPT !.nodes[state].score = <<m.ret>>,
                             !.list_ = Append(@, IF it.nodes[state].need_to_mult
                                                 THEN m.ret * (-1) ELSE m.ret)])

\* The body of the while loop once state is removed from the stack.
Visit(it, state) ==
    Let(peek(it.h, it.nodes[state].bq), LAMBDA first_player :
        IF first_player.exc # ""
        THEN After(it, first_player.h, first_player.exc)
        ELSE Let(is_over(first_player.h, it.nodes[state].bq), LAMBDA o :
            IF o.exc # ""
            THEN After(it, o.h, o.exc)
            ELSE IF o.ret
            THEN ScoreTerminal(After(it, o.h, ""), state, first_player.ret)
            ELSE IF it.nodes[state].children = <<>>
            THEN Expand(After(it, o.h, ""), state,
                        get_available_actions(o.h, first_player.ret))
            ELSE Aggregate(After(it, o.h, ""), state)))

\* One iteration of the while loop: the state on top of the stack is
\* removed and scored, expanded or aggregated.
IterStep(it) ==
    Visit([it EXCEPT !.s = SubSeq(@, 1, Len(@) - 1)], it.s[Len(it.s)])

\* The engine state when the while loop is first reached.
IterStart(h, battle_queue) ==
    Let(copy(h, battle_queue), LAMBDA bq_c :
        [h |-> bq_c.h,
         nodes |-> IF bq_c.exc = "" THEN <<StateTree(bq_c.ret)>> ELSE <<>>,
         s |-> IF bq_c.exc = "" THEN <<1>> ELSE <<>>,
         list_ |-> <<>>,
         exc |-> bq_c.exc])

\* while not s.is_empty(): ...  Up to 2^n iterations of the loop, as two
\* runs of up to 2^(n-1) iterations each.
RECURSIVE IterRun(_, _)
IterRun(it, n) ==
    IF it.exc # "" \/ it.s = <<>>
    THEN it
    ELSE IF n = 0
    THEN IterStep(it)
    ELSE IterRun(IterRun(it, n - 1), n - 1)

\* The engine state when the while loop ends (it ends within 2^MaxLoopLog
\* iterations for the games of this model; a loop still running then is
\* reported as "Unfinished").
IterLoop(it) ==
    Let(IterRun(it, MaxLoopLog), LAMBDA end :
        IF end.exc = "" /\ end.s # <<>> THEN [end EXCEPT !.exc = "Unfinished"] ELSE end)

get_state_score_iterative(h, battle_queue) ==
    Collect(Let(IterLoop(IterStart(h, battle_queue)), LAMBDA it :
                IF it.exc # ""
                THEN Raise(it.h, it.exc)
                ELSE IF it.list_ = <<>>
                THEN Raise(it.h, "IndexError")
                ELSE Ret(it.h, it.list_[Len(it.list_)])),
            h)

\* ------------------------------------------------------------ playstyles
\* d[key] = token on a dict held as a set of <<key, token>> pairs.
DictSet(d, key, token) == {p \in d : p[1] # key} \cup {<<key, token>>}

\* d[max(d.keys())]
DictMaxValue(d) ==
    (CHOOSE p \in d : \A o \in d : p[1] >= o[1])[2]

\* char = self.battle_queue.peek(); moves = char.get_available_actions()
HeadMoves(h, battle_queue) ==
    Bind(peek(h, battle_queue), LAMBDA char :
        IF char.ret = None
        THEN Raise(char.h, "AttributeError")
        ELSE Ret(char.h, get_available_actions(char.h, char.ret)))

\* One `if token in moves` block of RecursiveMinimax.select_attack, run on
\* the copy bq_x; r.ret holds the dict d before and after.
RecursiveMinimax_try(r, bq_x, token) ==
    Bind(r, LAMBDA d :
    Bind(peek(d.h, bq_x), LAMBDA char :
    Bind(RemoveAndMove(char.h, bq_x, token), LAMBDA m :
    Bind(peek(m.h, bq_x), LAMBDA new_char :
    Bind(get_state_score(new_char.h, bq_x), LAMBDA score :
        Ret(score.h, DictSet(d.ret, IF char.ret = new_char.ret
                                    THEN score.ret ELSE score.ret * (-1), token)))))))

RecursiveMinimax_select_attack(h, battle_queue) ==
    Collect(
        Bind(copy(h, battle_queue), LAMBDA bq_a :
        Bind(copy(bq_a.h, battle_queue), LAMBDA bq_s :
        Bind(HeadMoves(bq_s.h, battle_queue), LAMBDA moves :
        Bind(IF Has(moves.ret, "A")
             THEN RecursiveMinimax_try(Ret(moves.h, {}), bq_a.ret, "A")
             ELSE Ret(moves.h, {}), LAMBDA d1 :
        Bind(IF Has(moves.ret, "S")
             THEN RecursiveMinimax_try(d1, bq_s.ret, "S")
             ELSE d1, LAMBDA d2 :
            IF d2.ret = {} THEN Ret(d2.h, "") ELSE Ret(d2.h, DictMaxValue(d2.ret))))))),
        h)

\* One `if token in moves` block of IterativeMinimax.select_attack.
IterativeMinimax_try(r, bq_x, token) ==
    Bind(r, LAMBDA d :
    Bind(peek(d.h, bq_x), LAMBDA char :
    Bind(IF char.ret = None
         THEN Raise(char.h, "AttributeError")
         ELSE Ret(char.h, get_hp(char.h, char.ret)), LAMBDA score_to_return :
    Bind(RemoveAndMove(char.h, bq_x, token), LAMBDA m :
    Bind(peek(m.h, bq_x), LAMBDA new_char :
    Bind(is_over(new_char.h, bq_x), LAMBDA o :
    Bind(IF o.ret
         THEN Ret(o.h, score_to_return.ret)
         ELSE get_state_score_iterative(o.h, bq_x), LAMBDA score :
        Ret(score.h, DictSet(d.ret, IF char.ret = new_char.ret
                                    THEN score.ret ELSE score.ret * (-1), token)))))))))

IterativeMinimax_select_attack(h, battle_queue) ==
    Collect(
        Bind(copy(h, battle_queue), LAMBDA bq_a :
        Bind(copy(bq_a.h, battle_queue), LAMBDA bq_s :
        Bind(HeadMoves(bq_s.h, battle_queue), LAMBDA moves :
        Bind(IF Has(moves.ret, "A")
             THEN IterativeMinimax_try(Ret(moves.h, {}), bq_a.ret, "A")
             ELSE Ret(moves.h, {}), LAMBDA d1 :
        Bind(IF Has(moves.ret, "S")
             THEN IterativeMinimax_try(d1, bq_s.ret, "S")
             ELSE d1, LAMBDA d2 :
            IF d2.ret = {}
            THEN Raise(d2.h, "ValueError")
            ELSE Ret(d2.h, DictMaxValue(d2.ret))))))),
        h)

\* ========================================================== state machine
\* The state is the heap of the live objects; `last`, the record of the
\* last call made (the operation, the queue it was made on, its argument,
\* the value it returned, the exception it raised, and of the queue as the
\* call found it: the number of its entries and whether the argument was
\* among them); and `after`, the number of calls made since a copy was
\* taken and kept beside its original.
Call(op, q, arg, r) ==
    [op |-> op, q |-> q, arg |-> arg, ret |-> <<r.ret>>, exc |-> r.exc,
     len |-> Len(heap.bq[q].content),
     has |-> \E i \in 1..Len(heap.bq[q].content) : heap.bq[q].content[i] = arg]

\* No run of get_state_score_iterative is in progress.
NoRun ==
    [active |-> FALSE, q |-> None,
     it |-> [h |-> [ch |-> <<>>, bq |-> <<>>], nodes |-> <<>>, s |-> <<>>,
             list_ |-> <<>>, exc |-> ""],
     pushes |-> <<>>]

NoCall ==
    [op |-> "init", q |-> 1, arg |-> None, ret |-> <<None>>, exc |-> "",
     len |-> 0, has |-> FALSE]

\* Two characters, each the other's enemy, and one empty queue they are
\* bound to.
NewGame(kind, cls1, hp1, sp1, cls2, hp2, sp2) ==
    [ch |-> <<[cls |-> cls1, hp |-> hp1, sp |-> sp1, enemy |-> 2, battle_queue |-> 1],
              [cls |-> cls2, hp |-> hp2, sp |-> sp2, enemy |-> 1, battle_queue |-> 1]>>,
     bq |-> <<[kind |-> kind, content |-> <<>>, p1 |-> None, p2 |-> None,
               able_to_add |-> <<>>]>>]

Queues == 1..Len(heap.bq)

\* The characters bound to queue q.
BoundTo(q) == {c \in 1..Len(heap.ch) : heap.ch[c].battle_queue = q}

Add ==
    \E q \in Queues : \E c \in BoundTo(q) :
        /\ Len(heap.bq[q].content) < MaxLen
        /\ LET r == add(heap, q, c)
           IN heap' = r.h /\ last' = Call("add", q, c, r)

Remove ==
    \E q \in Queues :
        LET r == remove(heap, q)
        IN heap' = r.h /\ last' = Call("remove", q, None, r)

IsEmpty ==
    \E q \in Queues :
        LET r == is_empty(heap, q)
        IN heap' = r.h /\ last' = Call("is_empty", q, None, r)

Peek ==
    \E q \in Queues :
        LET r == peek(heap, q)
        IN heap' = r.h /\ last' = Call("peek", q, None, r)

IsOver ==
    \E q \in Queues :
        LET r == is_over(heap, q)
        IN heap' = r.h /\ last' = Call("is_over", q, None, r)

GetWinner ==
    \E q \in Queues :
        LET r == get_winner(heap, q)
        IN heap' = r.h /\ last' = Call("get_winner", q, None, r)

\* A turn of the game on queue q: the character at the front is removed
\* and performs one of its available actions.
Move ==
    \E q \in Queues : \E token \in {"A", "S"} :
        LET p == peek(heap, q)
        IN /\ p.exc = "" /\ p.h.bq[q].content # <<>>
           /\ Has(get_available_actions(p.h, p.ret), token)
           /\ LET r == RemoveAndMove(heap, q, token)
              IN heap' = r.h /\ last' = [Call("move", q, None, r) EXCEPT !.ret = <<token>>]

\* The heap that holds queue q alone, as queue 1, with the two characters
\* bound to it as characters 1 and 2 (the clone of character i as character
\* i); the characters are kept only while the queue refers to them.
Only(h, q) ==
    LET first == CHOOSE c \in 1..Len(h.ch) :
                     h.ch[c].battle_queue = q
                     /\ \A d \in 1..Len(h.ch) : h.ch[d].battle_queue = q => c <= d
        ren(c) == IF c = None THEN None ELSE c - first + 1
    IN [ch |-> IF h.bq[q].p1 = None
               THEN <<>>
               ELSE [i \in 1..2 |-> [h.ch[first + i - 1] EXCEPT
                                        !.enemy = ren(@), !.battle_queue = 1]],
        bq |-> <<[h.bq[q] EXCEPT !.p1 = ren(@), !.p2 = ren(@),
                                 !.content = [i \in 1..Len(@) |-> ren(@[i])]]>>]

\* bq = bq.copy(): the caller goes on with the copy in place of the
\* original.
CopyRebind ==
    \E q \in Queues :
        LET r == copy(heap, q)
        IN /\ heap' = IF r.exc = "" THEN Only(r.h, r.ret) ELSE heap
           /\ last' = Call("copy", q, None,
                           [r EXCEPT !.ret = IF r.exc = "" THEN 1 ELSE None])

\* The games played: the class and the resource pool (set_sp) of the first
\* and of the second character.
Games ==
    {<<"Rogue", 10, "Mage", 5>>, <<"Rogue", 3, "Mage", 0>>,
     <<"Vampire", 20, "Rogue", 3>>, <<"Mage", 30, "Rogue", 0>>}

Init ==
    /\ \E kind \in {"base", "restricted"}, g \in Games :
          heap = NewGame(kind, g[1], 40, g[2], g[3], 3, g[4])
    /\ last = NoCall
    /\ after = 0
    /\ run = NoRun
    /\ ahead = NoRun.it

Next ==
    \/ Add /\ UNCHANGED <<after, run, ahead>>
    \/ Remove /\ UNCHANGED <<after, run, ahead>>
    \/ IsEmpty /\ UNCHANGED <<after, run, ahead>>
    \/ Peek /\ UNCHANGED <<after, run, ahead>>
    \/ IsOver /\ UNCHANGED <<after, run, ahead>>
    \/ GetWinner /\ UNCHANGED <<after, run, ahead>>
    \/ CopyRebind /\ UNCHANGED <<after, run, ahead>>
    \/ Move /\ UNCHANGED <<after, run, ahead>>

Spec == Init /\ [][Next]_vars

Restricted(q) == heap.bq[q].kind = "restricted"

\* ------------------------------------------------- the search engines
\* The engines and the two minimax playstyles applied to the queue of a
\* game in progress; the game is brought to the state they are applied to
\* by add, remove and the moves of the characters.
GetStateScore ==
    \E q \in Queues :
        LET r == get_state_score(heap, q)
        IN heap' = r.h /\ last' = Call("get_state_score", q, None, r)

GetStateScoreIterative ==
    \E q \in Queues :
        LET r == get_state_score_iterative(heap, q)
        IN heap' = r.h /\ last' = Call("get_state_score_iterative", q, None, r)

RecursiveSelectAttack ==
    \E q \in Queues :
        LET r == RecursiveMinimax_select_attack(heap, q)
        IN heap' = r.h /\ last' = Call("RecursiveMinimax.select_attack", q, None, r)

IterativeSelectAttack ==
    \E q \in Queues :
        LET r == IterativeMinimax_select_attack(heap, q)
        IN heap' = r.h /\ last' = Call("IterativeMinimax.select_attack", q, None, r)

\* The games searched: class, health (set_hp) and resource pool (set_sp) of
\* the first and of the second character.
SearchGames ==
    {<<"Rogue", 10, 13, "Rogue", 10, 3>>,
     <<"Mage", 40, 30, "Rogue", 3, 3>>,
     <<"Vampire", 12, 20, "Mage", 9, 5>>}

InitSearch ==
    /\ \E kind \in {"base", "restricted"}, g \in SearchGames :
          heap = NewGame(kind, g[1], g[2], g[3], g[4], g[5], g[6])
    /\ last = NoCall
    /\ after = 0
    /\ run = NoRun
    /\ ahead = NoRun.it

NextSearch ==
    \/ Add /\ UNCHANGED <<after, run, ahead>>
    \/ Remove /\ UNCHANGED <<after, run, ahead>>
    \/ Move /\ UNCHANGED <<after, run, ahead>>
    \/ GetStateScore /\ UNCHANGED <<after, run, ahead>>
    \/ GetStateScoreIterative /\ UNCHANGED <<after, run, ahead>>
    \/ RecursiveSelectAttack /\ UNCHANGED <<after, run, ahead>>
    \/ IterativeSelectAttack /\ UNCHANGED <<after, run, ahead>>

SpecSearch == InitSearch /\ [][NextSearch]_vars

\* ------------------------------------------- a queue beside its copy
\* c = Q.copy(): the copy is kept beside the original (queue 2 beside queue
\* 1; the clones of characters 1 and 2 are characters 3 and 4), and add,
\* remove and the moves are then applied to either of them.
Copy ==
    /\ Len(heap.bq) = 1
    /\ LET r == copy(heap, 1)
       IN /\ r.exc = ""
          /\ heap' = r.h
          /\ last' = Call("copy", 1, None, r)

\* The calls are counted once the copy is taken.
Count ==
    IF Len(heap.bq) = 1
    THEN after' = after
    ELSE after < MaxAfterCopy /\ after' = after + 1

CopyGames ==
    {<<"Rogue", 6, "Mage", 5>>, <<"Vampire", 20, "Rogue", 3>>}

InitCopy ==
    /\ \E kind \in {"base", "restricted"}, g \in CopyGames :
          heap = NewGame(kind, g[1], 40, g[2], g[3], 40, g[4])
    /\ last = NoCall
    /\ after = 0
    /\ run = NoRun
    /\ ahead = NoRun.it

NextCopy ==
    \/ Add /\ Count /\ UNCHANGED <<run, ahead>>
    \/ Remove /\ Count /\ UNCHANGED <<run, ahead>>
    \/ Move /\ Count /\ UNCHANGED <<run, ahead>>
    \/ Copy /\ UNCHANGED <<after, run, ahead>>

SpecCopy == InitCopy /\ [][NextCopy]_vars

\* ================================================================ claims
\* C1: once a queue is copied, a call of add, remove or a move made on the
\* copy leaves the original's entry sequence, its flag ledger and its two
\* actors as they were, and a call made on the original leaves the copy's
\* as they were.
C1_CloneIndependence ==
    [][\A q \in Queues :
          (last'.op \in {"add", "remove", "move"} /\ last'.q # q)
          => /\ heap'.bq[q] = heap.bq[q]
             /\ \A c \in BoundTo(q) : heap'.ch[c] = heap.ch[c]]_vars

\* A move made on the copy has requeued and hurt the copy's actors, and
\* the copy no longer agrees with the original on the entry sequence nor
\* on the second actor's health.
C1_Witness ==
    /\ Len(heap.bq) = 2 /\ last.op = "move" /\ last.q = 2 /\ last.exc = ""
    /\ BoundTo(1) = {1, 2} /\ BoundTo(2) = {3, 4}
    /\ Len(heap.bq[2].content) # Len(heap.bq[1].content)
    /\ \E i \in 1..2 : heap.ch[i + 2].hp < heap.ch[i].hp

\* is_over() returned without failing, and returned `over`.
IsOverIs(q, over) ==
    LET o == is_over(heap, q) IN o.exc = "" /\ o.ret = over

\* The score the terminal case of the recursive engine is to give queue q:
\* the winner's health, seen by the actor peek() returns.
ExpectedTerminalScore(q) ==
    LET w == get_winner(heap, q)
        p == peek(heap, q)
    IN IF w.ret = None THEN 0
       ELSE IF w.ret = p.ret THEN get_hp(heap, w.ret)
       ELSE 0 - get_hp(heap, w.ret)

\* C2: on every queue that is not over, the iterative engine returns the
\* integer the recursive engine returns.
C2_SameScore ==
    \A q \in Queues :
        IsOverIs(q, FALSE)
        => LET rec == get_state_score(heap, q)
               iter == get_state_score_iterative(heap, q)
           IN rec.exc = "" /\ iter.exc = "" /\ iter.ret = rec.ret

\* The iterative engine has scored a queue that is not over and whose head
\* has a single action available, and the head loses the game.
C2_Witness ==
    /\ last.op = "get_state_score_iterative" /\ last.exc = ""
    /\ IsOverIs(last.q, FALSE)
    /\ Len(get_available_actions(heap, peek(heap, last.q).ret)) = 1
    /\ last.ret[1] < 0
    /\ last.ret[1] = get_state_score(heap, last.q).ret

\* C3: on every queue whose head actor has an available move, the two
\* minimax playstyles select the same move token.
C3_SameMove ==
    \A q \in Queues :
        LET p == peek(heap, q)
        IN (/\ p.exc = "" /\ p.h.bq[q].content # <<>>
            /\ get_available_actions(p.h, p.ret) # <<>>)
           => LET rec == RecursiveMinimax_select_attack(heap, q)
                  iter == IterativeMinimax_select_attack(heap, q)
              IN rec.exc = "" /\ iter.exc = "" /\ iter.ret = rec.ret

\* IterativeMinimax has selected the basic action on a queue on which
\* RecursiveMinimax selects the special action.
C3_Witness ==
    /\ last.op = "IterativeMinimax.select_attack"
    /\ last.exc = "" /\ last.ret = <<"A">>
    /\ RecursiveMinimax_select_attack(heap, last.q).exc = ""
    /\ RecursiveMinimax_select_attack(heap, last.q).ret = "S"

\* C4: on every queue that is over (and whose get_winner() returns), the
\* recursive engine returns the winner's health if the winner is the actor
\* peek() returns, minus the winner's health if it is the other actor, and
\* 0 if there is no winner.
C4_TerminalScore ==
    \A q \in Queues :
        (IsOverIs(q, TRUE) /\ get_winner(heap, q).exc = "")
        => LET rec == get_state_score(heap, q)
           IN rec.exc = "" /\ rec.ret = ExpectedTerminalScore(q)

\* The recursive engine has raised AttributeError on a queue that is over
\* and has no winner.
C4_Witness ==
    /\ last.op = "get_state_score" /\ last.exc = "AttributeError"
    /\ IsOverIs(last.q, TRUE)
    /\ get_winner(heap, last.q).exc = "" /\ get_winner(heap, last.q).ret = None

\* C5: on every queue that is over (and has had an actor added to it), the
\* iterative engine returns the terminal score.
C5_IterativeTerminalScore ==
    \A q \in Queues :
        (IsOverIs(q, TRUE) /\ heap.bq[q].p1 # None)
        => LET iter == get_state_score_iterative(heap, q)
           IN iter.exc = "" /\ iter.ret = ExpectedTerminalScore(q)

\* The iterative engine has raised IndexError on a queue that is over, won
\* by the actor at its head, which the recursive engine scores with the
\* winner's health.
C5_Witness ==
    /\ last.op = "get_state_score_iterative" /\ last.exc = "IndexError"
    /\ IsOverIs(last.q, TRUE)
    /\ get_winner(heap, last.q).ret # None
    /\ get_winner(heap, last.q).ret = peek(heap, last.q).ret
    /\ get_state_score(heap, last.q).ret = get_hp(heap, get_winner(heap, last.q).ret)
    /\ get_state_score(heap, last.q).ret > 0

\* C6: in an admission-controlled queue the flag ledger is as long as the
\* entry sequence in every reachable state, the queue returned by copy
\* included.
C6_LedgerLength ==
    \A q \in Queues :
        Restricted(q) => Len(heap.bq[q].able_to_add) = Len(heap.bq[q].content)

\* A copy of an admission-controlled queue that holds three entries, one of
\* them without the right to add.
C6_Witness ==
    /\ last.op = "copy" /\ last.exc = "" /\ Restricted(1)
    /\ Len(heap.bq[1].content) = 3
    /\ \E i \in 1..3 : ~heap.bq[1].able_to_add[i]

\* C7: no actor has more than 2 entries whose flag is true.
C7_AdmissionCap ==
    \A q \in Queues : \A c \in 1..Len(heap.ch) :
        Restricted(q) => CountAbleToAdd(heap, q, c) <= 2

\* An actor with two admitted entries was appended a third time, and the
\* third entry is not admitted.
C7_Witness ==
    /\ last.op = "add" /\ Restricted(1) /\ last.exc = ""
    /\ Len(heap.bq[1].content) = last.len + 1
    /\ CountAbleToAdd(heap, 1, last.arg) = 2
    /\ ~heap.bq[1].able_to_add[Len(heap.bq[1].able_to_add)]
    /\ heap.bq[1].content[1] = last.arg

\* C8: add(x) on an admission-controlled queue that holds no entry equal to
\* x appends exactly one entry x with flag true and does not fail.
C8_FirstAppend ==
    [][(last'.op = "add" /\ Restricted(last'.q) /\ ~InContent(heap, last'.q, last'.arg))
       => /\ last'.exc = ""
          /\ heap'.bq[last'.q].content = Append(heap.bq[last'.q].content, last'.arg)
          /\ heap'.bq[last'.q].able_to_add = Append(heap.bq[last'.q].able_to_add, TRUE)]_vars

\* A first append made while the front entry, another actor's, had lost the
\* right to add.
C8_Witness ==
    /\ last.op = "add" /\ Restricted(1) /\ ~last.has /\ last.len >= 1
    /\ ~heap.bq[1].able_to_add[1]
    /\ heap.bq[1].content[1] # last.arg
    /\ Len(heap.bq[1].content) = last.len + 1
    /\ heap.bq[1].able_to_add[last.len + 1]

\* C9: add(x) on an admission-controlled queue that already holds x and
\* whose front entry's flag is false does not fail and leaves the entry
\* sequence and the flag ledger unchanged.
C9_SilentRefusal ==
    [][(/\ last'.op = "add" /\ Restricted(last'.q)
        /\ InContent(heap, last'.q, last'.arg)
        /\ ~heap.bq[last'.q].able_to_add[1])
       => /\ last'.exc = ""
          /\ heap'.bq[last'.q].content = heap.bq[last'.q].content
          /\ heap'.bq[last'.q].able_to_add = heap.bq[last'.q].able_to_add]_vars

\* An append of an actor already present, refused because the front entry
\* had lost the right to add.
C9_Witness ==
    /\ last.op = "add" /\ Restricted(1) /\ last.has /\ last.exc = ""
    /\ last.len >= 1 /\ ~heap.bq[1].able_to_add[1]
    /\ Len(heap.bq[1].content) = last.len

\* C10: add(x) with the front entry's flag true, x already present and x
\* not the front actor appends exactly one entry x with flag false.
C10_EnqueuedByOther ==
    [][(/\ last'.op = "add" /\ Restricted(last'.q)
        /\ InContent(heap, last'.q, last'.arg)
        /\ heap.bq[last'.q].able_to_add[1]
        /\ heap.bq[last'.q].content[1] # last'.arg)
       => /\ last'.exc = ""
          /\ heap'.bq[last'.q].content = Append(heap.bq[last'.q].content, last'.arg)
          /\ heap'.bq[last'.q].able_to_add = Append(heap.bq[last'.q].able_to_add, FALSE)]_vars

\* The example of the class docstring: [A, B] with flags [true, true], and
\* add(B) gives [A, B, B] with flags [true, true, false].
C10_Witness ==
    /\ last.op = "add" /\ Restricted(1) /\ last.arg = 2
    /\ heap.bq[1].content = <<1, 2, 2>>
    /\ heap.bq[1].able_to_add = <<TRUE, TRUE, FALSE>>
    /\ last.len = 2

\* C11: add(x) made while the front entry is x's and its flag is true
\* appends exactly one entry x, whose flag is true iff fewer than 2 of the
\* entries equal to x had flag true.
C11_SelfAppend ==
    [][(/\ last'.op = "add" /\ Restricted(last'.q)
        /\ heap.bq[last'.q].content # <<>>
        /\ heap.bq[last'.q].content[1] = last'.arg
        /\ heap.bq[last'.q].able_to_add[1])
       => /\ last'.exc = ""
          /\ heap'.bq[last'.q].content = Append(heap.bq[last'.q].content, last'.arg)
          /\ heap'.bq[last'.q].able_to_add =
                Append(heap.bq[last'.q].able_to_add,
                       CountAbleToAdd(heap, last'.q, last'.arg) < 2)]_vars

\* [A, A] with flags [true, true], and add(A) gives [A, A, A] with flags
\* [true, true, false].
C11_Witness ==
    /\ last.op = "add" /\ Restricted(1) /\ last.arg = 1 /\ last.len = 2
    /\ heap.bq[1].content = <<1, 1, 1>>
    /\ heap.bq[1].able_to_add = <<TRUE, TRUE, FALSE>>

\* The key under which a minimax playstyle files the move `token` of the
\* head actor in its dict d: the score of the state the move leads to,
\* negated when the move passes the turn to the other actor.
RecursiveKey(h, q, token) ==
    LET r == Bind(copy(h, q), LAMBDA bq_x :
                 RecursiveMinimax_try(Ret(bq_x.h, {}), bq_x.ret, token))
    IN [exc |-> r.exc,
        key |-> IF r.exc = "" THEN (CHOOSE p \in r.ret : TRUE)[1] ELSE 0]

IterativeKey(h, q, token) ==
    LET r == Bind(copy(h, q), LAMBDA bq_x :
                 IterativeMinimax_try(Ret(bq_x.h, {}), bq_x.ret, token))
    IN [exc |-> r.exc,
        key |-> IF r.exc = "" THEN (CHOOSE p \in r.ret : TRUE)[1] ELSE 0]

\* Both moves are available to the head actor of queue q.
BothMoves(q) ==
    LET p == peek(heap, q)
    IN /\ p.exc = "" /\ p.ret # None
       /\ Has(get_available_actions(p.h, p.ret), "A")
       /\ Has(get_available_actions(p.h, p.ret), "S")

RecursiveTie(q) ==
    /\ BothMoves(q)
    /\ RecursiveKey(heap, q, "A").exc = "" /\ RecursiveKey(heap, q, "S").exc = ""
    /\ RecursiveKey(heap, q, "A").key = RecursiveKey(heap, q, "S").key

IterativeTie(q) ==
    /\ BothMoves(q)
    /\ IterativeKey(heap, q, "A").exc = "" /\ IterativeKey(heap, q, "S").exc = ""
    /\ IterativeKey(heap, q, "A").key = IterativeKey(heap, q, "S").key

\* C12: when both moves are available to the head actor and are filed
\* under the same sign-adjusted score, select_attack of RecursiveMinimax
\* and of IterativeMinimax returns the basic move 'A'.
C12_TieBreak ==
    \A q \in Queues :
        /\ RecursiveTie(q) => RecursiveMinimax_select_attack(heap, q).ret = "A"
        /\ IterativeTie(q) => IterativeMinimax_select_attack(heap, q).ret = "A"

\* RecursiveMinimax has returned 'S' on a queue whose head actor has both
\* moves, which score the same.
C12_Witness ==
    /\ last.op = "RecursiveMinimax.select_attack" /\ last.exc = ""
    /\ RecursiveTie(last.q)
    /\ last.ret = <<"S">>

\* peek() on queue q returns an actor that has no available action.
NoLegalMove(q) ==
    LET p == peek(heap, q)
    IN /\ p.exc = "" /\ p.ret # None
       /\ get_available_actions(p.h, p.ret) = <<>>

\* C13: when the actor peek() returns on the live queue has no available
\* action, select_attack of RecursiveMinimax and of IterativeMinimax both
\* return, and return the same token.
C13_NoMoveSentinel ==
    \A q \in Queues :
        NoLegalMove(q)
        => /\ RecursiveMinimax_select_attack(heap, q).exc = ""
           /\ IterativeMinimax_select_attack(heap, q).exc = ""
           /\ IterativeMinimax_select_attack(heap, q).ret
                = RecursiveMinimax_select_attack(heap, q).ret

\* IterativeMinimax has raised ValueError on a queue whose actor has no
\* available action and on which RecursiveMinimax returns ''.
C13_Witness ==
    /\ last.op = "IterativeMinimax.select_attack" /\ last.exc = "ValueError"
    /\ NoLegalMove(last.q)
    /\ RecursiveMinimax_select_attack(heap, last.q).exc = ""
    /\ RecursiveMinimax_select_attack(heap, last.q).ret = ""

\* ------------------------------------------------ the four playstyles
\* ManualPlaystyle.select_attack(parameter); the parameter is <<>> for None
\* and <<key>> for the key pressed.
ManualPlaystyle_select_attack(h, parameter) ==
    IF parameter \in {<<"A">>, <<"S">>}
    THEN Ret(h, parameter[1])
    ELSE Ret(h, "X")

\* RandomPlaystyle.select_attack(): the results the call may produce, one
\* for each action random.choice may pick.
RandomPlaystyle_select_attack(h, battle_queue) ==
    LET actions == HeadMoves(h, battle_queue)
    IN IF actions.exc # ""
       THEN {actions}
       ELSE IF actions.ret = <<>>
       THEN {Ret(actions.h, "X")}
       ELSE {Ret(actions.h, actions.ret[i]) : i \in 1..Len(actions.ret)}

Parameters == {<<>>, <<"A">>, <<"S">>, <<"X">>, <<"a">>}

ManualSelectAttack ==
    \E q \in Queues, parameter \in Parameters :
        LET r == ManualPlaystyle_select_attack(heap, parameter)
        IN heap' = r.h /\ last' = Call("ManualPlaystyle.select_attack", q, None, r)

RandomSelectAttack ==
    \E q \in Queues :
        \E r \in RandomPlaystyle_select_attack(heap, q) :
            heap' = r.h /\ last' = Call("RandomPlaystyle.select_attack", q, None, r)

\* A game in progress in which each playstyle is asked for a move.
NextPlay ==
    \/ Add /\ UNCHANGED <<after, run, ahead>>
    \/ Remove /\ UNCHANGED <<after, run, ahead>>
    \/ Move /\ UNCHANGED <<after, run, ahead>>
    \/ ManualSelectAttack /\ UNCHANGED <<after, run, ahead>>
    \/ RandomSelectAttack /\ UNCHANGED <<after, run, ahead>>
    \/ RecursiveSelectAttack /\ UNCHANGED <<after, run, ahead>>
    \/ IterativeSelectAttack /\ UNCHANGED <<after, run, ahead>>

SpecPlay == InitSearch /\ [][NextPlay]_vars

\* C14: every playstyle's select_attack returns the token 'X' when a valid
\* move cannot be found: ManualPlaystyle for every parameter other than 'A'
\* and 'S', the other three when the head actor has no available action.
C14_NoMoveToken ==
    /\ \A parameter \in Parameters \ {<<"A">>, <<"S">>} :
          ManualPlaystyle_select_attack(heap, parameter) = Ret(heap, "X")
    /\ \A q \in Queues :
          NoLegalMove(q)
          => /\ \A r \in RandomPlaystyle_select_attack(heap, q) :
                   r.exc = "" /\ r.ret = "X"
             /\ RecursiveMinimax_select_attack(heap, q).exc = ""
             /\ RecursiveMinimax_select_attack(heap, q).ret = "X"
             /\ IterativeMinimax_select_attack(heap, q).exc = ""
             /\ IterativeMinimax_select_attack(heap, q).ret = "X"

\* RecursiveMinimax has returned '' on a queue whose head actor has no
\* available action, on which RandomPlaystyle returns 'X'.
C14_Witness ==
    /\ last.op = "RecursiveMinimax.select_attack" /\ last.exc = ""
    /\ NoLegalMove(last.q)
    /\ last.ret = <<"">>
    /\ \A r \in RandomPlaystyle_select_attack(heap, last.q) : r.ret = "X"

\* C15: select_attack of RecursiveMinimax and of IterativeMinimax leaves
\* the live queue as it found it: the same entries (spent actors at its
\* front included), the same flags, the same health and resources.
C15_LiveQueueUntouched ==
    [][(last'.op \in {"RecursiveMinimax.select_attack",
                      "IterativeMinimax.select_attack"})
       => /\ heap'.bq[last'.q].content = heap.bq[last'.q].content
          /\ heap'.bq[last'.q].able_to_add = heap.bq[last'.q].able_to_add
          /\ heap'.ch = heap.ch]_vars

\* RecursiveMinimax.select_attack has returned a move and the live queue
\* holds fewer entries than when the call was made.
C15_Witness ==
    /\ last.op = "RecursiveMinimax.select_attack" /\ last.exc = ""
    /\ last.ret \in {<<"A">>, <<"S">>}
    /\ Len(heap.bq[last.q].content) < last.len

\* C16: a call of get_state_score or of get_state_score_iterative leaves
\* the queue it is given with the same entries, and every actor with the
\* same health and resources.
C16_InputUnmutated ==
    [][(last'.op \in {"get_state_score", "get_state_score_iterative"})
       => /\ heap'.bq[last'.q].content = heap.bq[last'.q].content
          /\ heap'.ch = heap.ch]_vars

\* An engine has scored a queue that is not over and has a spent actor at
\* its front, and the queue still holds every entry it held.
C16_Witness ==
    /\ last.op \in {"get_state_score", "get_state_score_iterative"}
    /\ last.exc = ""
    /\ IsOverIs(last.q, FALSE)
    /\ heap.bq[last.q].content # <<>>
    /\ get_available_actions(heap, heap.bq[last.q].content[1]) = <<>>
    /\ Len(heap.bq[last.q].content) = last.len

\* ------------------------------------------- games of any health
\* A Rogue against a Mage, each with its health set (set_hp) to zero or
\* to a positive value before the game starts.
HealthValues == {0, 12}

InitHealth ==
    /\ \E kind \in {"base", "restricted"}, hp1 \in HealthValues, hp2 \in HealthValues :
          heap = NewGame(kind, "Rogue", hp1, 6, "Mage", hp2, 10)
    /\ last = NoCall
    /\ after = 0
    /\ run = NoRun
    /\ ahead = NoRun.it

NextHealth ==
    \/ Add /\ UNCHANGED <<after, run, ahead>>
    \/ Remove /\ UNCHANGED <<after, run, ahead>>
    \/ Move /\ UNCHANGED <<after, run, ahead>>
    \/ IsEmpty /\ UNCHANGED <<after, run, ahead>>
    \/ Peek /\ UNCHANGED <<after, run, ahead>>
    \/ IsOver /\ UNCHANGED <<after, run, ahead>>
    \/ GetWinner /\ UNCHANGED <<after, run, ahead>>

SpecHealth == InitHealth /\ [][NextHealth]_vars

\* C17: on a base queue that has had an add, get_winner() returns None when
\* is_over() is false; when it is true, the cached participant whose health
\* is nonzero if the other's is zero, and None when both have health zero
\* or both have nonzero health.
C17_BaseWinner ==
    \A q \in Queues :
        (~Restricted(q) /\ heap.bq[q].p1 # None)
        => LET p1 == heap.bq[q].p1
               p2 == heap.bq[q].p2
           IN /\ get_winner(heap, q).exc = ""
              /\ get_winner(heap, q).ret =
                    IF ~is_over(heap, q).ret THEN None
                    ELSE IF get_hp(heap, p1) = 0 /\ get_hp(heap, p2) # 0 THEN p2
                    ELSE IF get_hp(heap, p2) = 0 /\ get_hp(heap, p1) # 0 THEN p1
                    ELSE None

\* get_winner() of a base queue has returned the second cached participant
\* while both participants have health zero.
C17_Witness ==
    /\ last.op = "get_winner" /\ last.exc = "" /\ ~Restricted(last.q)
    /\ heap.bq[last.q].p1 # None
    /\ get_hp(heap, heap.bq[last.q].p1) = 0
    /\ get_hp(heap, heap.bq[last.q].p2) = 0
    /\ last.ret = <<heap.bq[last.q].p2>>

\* C18: get_winner() of an admission-controlled queue returns None when
\* the game is not over or the purged queue has no entries, and otherwise
\* the actor among the queue's entries whose health is not zero, None when
\* there is none; it never returns an actor of health zero or one that is
\* not among the entries.
C18_RestrictedWinner ==
    \A q \in Queues :
        Restricted(q)
        => LET w == get_winner(heap, q)
               o == is_over(heap, q)
               entries == {o.h.bq[q].content[i] : i \in 1..Len(o.h.bq[q].content)}
               alive == {c \in entries : get_hp(heap, c) # 0}
           IN /\ w.exc = ""
              /\ w.ret # None => (get_hp(heap, w.ret) # 0 /\ w.ret \in entries)
              /\ (~o.ret \/ entries = {}) => w.ret = None
              /\ (o.ret /\ entries # {})
                    => IF alive = {} THEN w.ret = None ELSE w.ret \in alive

\* get_winner() of an admission-controlled queue has returned an actor: it
\* is among the entries, its health is not zero and its enemy's is.
C18_Witness ==
    /\ last.op = "get_winner" /\ last.exc = "" /\ Restricted(last.q)
    /\ last.ret # <<None>>
    /\ InContent(heap, last.q, last.ret[1])
    /\ get_hp(heap, last.ret[1]) # 0
    /\ get_hp(heap, heap.ch[last.ret[1]].enemy) = 0

\* C19: is_over() is true exactly when the queue is empty once the spent
\* actors are purged from its front or one of the two cached participants
\* has health zero; a queue that never had an add is over, and a queue
\* whose front actor has an available action and whose participants both
\* have positive health is not.
C19_IsOver ==
    \A q \in Queues :
        LET o == is_over(heap, q)
            purged == clean_queue(heap, q).h.bq[q].content
            p1 == heap.bq[q].p1
            p2 == heap.bq[q].p2
        IN /\ o.exc = ""
           /\ o.ret <=> \/ purged = <<>>
                        \/ /\ p1 # None /\ p2 # None
                           /\ get_hp(heap, p1) = 0 \/ get_hp(heap, p2) = 0
           /\ (heap.bq[q].content = <<>> /\ p1 = None) => o.ret
           /\ (/\ heap.bq[q].content # <<>>
               /\ get_available_actions(heap, heap.bq[q].content[1]) # <<>>
               /\ p1 # None /\ p2 # None
               /\ get_hp(heap, p1) > 0 /\ get_hp(heap, p2) > 0) => ~o.ret

\* is_over() has returned True on a queue whose front actor has an
\* available action, because a cached participant has health zero.
C19_Witness ==
    /\ last.op = "is_over" /\ last.exc = "" /\ last.ret = <<TRUE>>
    /\ heap.bq[last.q].content # <<>>
    /\ get_available_actions(heap, heap.bq[last.q].content[1]) # <<>>
    /\ get_hp(heap, heap.bq[last.q].p2) = 0
    /\ get_hp(heap, heap.bq[last.q].p1) > 0

\* peek() on queue q of heap h returns; it leaves the purged entries, none
\* removed; and it returns the first of them, or the cached first
\* participant when there is none.
PeekReturns(h, q) ==
    LET r == peek(h, q)
        purged == clean_queue(h, q).h.bq[q].content
    IN /\ r.exc = ""
       /\ r.h.bq[q].content = purged
       /\ r.ret = IF purged # <<>> THEN purged[1] ELSE h.bq[q].p1

\* C20: peek() never fails: it returns the front entry of the purged
\* queue without removing it, and the cached first participant when the
\* purge leaves the queue empty; the cached first participant is the
\* actor of the first add made to the queue.
C20_PeekNeverFails ==
    [][\A q \in Queues :
          /\ PeekReturns(heap, q)
          /\ heap'.bq[q].p1 =
                IF heap.bq[q].p1 # None THEN heap.bq[q].p1
                ELSE IF last'.op = "add" /\ last'.q = q THEN last'.arg
                ELSE None]_vars

\* peek() has purged every entry of a queue and returned the cached first
\* participant.
C20_Witness ==
    /\ last.op = "peek" /\ last.exc = ""
    /\ last.len > 0 /\ heap.bq[last.q].content = <<>>
    /\ heap.bq[last.q].p1 # None
    /\ last.ret = <<heap.bq[last.q].p1>>

\* C21: two consecutive peek() calls on a queue return the same actor, and
\* the second call leaves the entries and the flag ledger as the first
\* left them.
C21_IdempotentPeek ==
    \A q \in Queues :
        LET first == peek(heap, q)
            second == peek(first.h, q)
        IN /\ first.exc = "" /\ second.exc = ""
           /\ second.ret = first.ret
           /\ Len(second.h.bq[q].content) = Len(first.h.bq[q].content)
           /\ second.h.bq[q].able_to_add = first.h.bq[q].able_to_add
           /\ second.h = first.h

\* peek() has purged two or more spent actors and returned the entry
\* behind them, and a second peek() returns it again.
C21_Witness ==
    /\ last.op = "peek" /\ last.exc = ""
    /\ heap.bq[last.q].content # <<>>
    /\ last.len >= Len(heap.bq[last.q].content) + 2
    /\ last.ret = <<heap.bq[last.q].content[1]>>
    /\ peek(heap, last.q) = Ret(heap, last.ret[1])

\* C22: remove() purges the spent actors from the front, then pops and
\* returns the first remaining actor, which has an available action; on a
\* queue that the purge leaves empty it fails, leaving the queue (and the
\* ledger of an admission-controlled queue) empty.
C22_Remove ==
    [][last'.op = "remove"
       => LET purged == clean_queue(heap, last'.q).h.bq[last'.q]
              left == heap'.bq[last'.q]
          IN IF purged.content = <<>>
             THEN /\ last'.exc # ""
                  /\ left.content = <<>>
                  /\ Len(left.able_to_add) = Len(left.content)
             ELSE /\ last'.exc = ""
                  /\ last'.ret = <<purged.content[1]>>
                  /\ get_available_actions(heap, purged.content[1]) # <<>>
                  /\ left.content = Tail(purged.content)
                  /\ Restricted(last'.q)
                       => left.able_to_add = Tail(purged.able_to_add)]_vars

\* remove() has failed on an admission-controlled queue that held only
\* spent actors, and has left it empty.
C22_Witness ==
    /\ last.op = "remove" /\ last.exc = "IndexError" /\ Restricted(last.q)
    /\ last.len >= 2
    /\ heap.bq[last.q].content = <<>>
    /\ heap.bq[last.q].able_to_add = <<>>

\* Character c2 of heap h2 is a clone of character c1 of heap h1.
CloneOf(h2, c2, h1, c1) ==
    /\ c2 > Len(h1.ch)
    /\ h2.ch[c2].cls = h1.ch[c1].cls
    /\ h2.ch[c2].hp = h1.ch[c1].hp
    /\ h2.ch[c2].sp = h1.ch[c1].sp

\* C23: the copy of an admission-controlled queue has as many entries as
\* the original, entry i of the copy is the clone of the actor at entry i
\* of the original, equal entries having the same clone, and its ledger is
\* the original's.
C23_RestrictedCopy ==
    \A q \in Queues :
        Restricted(q)
        => LET c == copy(heap, q)
               orig == heap.bq[q].content
               new == c.h.bq[c.ret].content
           IN /\ c.exc = ""
              /\ Len(new) = Len(orig)
              /\ \A i \in 1..Len(orig) : CloneOf(c.h, new[i], heap, orig[i])
              /\ \A i, j \in 1..Len(orig) : (new[i] = new[j]) <=> (orig[i] = orig[j])
              /\ c.h.bq[c.ret].able_to_add = heap.bq[q].able_to_add

\* copy() of an admission-controlled queue has raised AttributeError: the
\* queue has no entry and no cached participant.
C23_Witness ==
    /\ last.op = "copy" /\ last.exc = "AttributeError" /\ Restricted(last.q)
    /\ heap.bq[last.q].content = <<>>
    /\ heap.bq[last.q].p1 = None

\* ------------------------------------------------ the scenario [A, B]
\* The set-up of the first doctest of the engines, bq.add(A); bq.add(B);
\* B.set_hp(3), for A and B of several classes and resource pools; the game
\* then goes on by add, remove and the moves.
ScenarioGames ==
    {<<"Rogue", 13, "Mage", 5>>, <<"Mage", 35, "Rogue", 3>>,
     <<"Vampire", 15, "Rogue", 3>>, <<"Rogue", 3, "Vampire", 15>>}

InitScenario ==
    /\ \E g \in ScenarioGames :
          heap = add(add(NewGame("base", g[1], 100, g[2], g[3], 3, g[4]), 1, 1).h, 1, 2).h
    /\ last = NoCall
    /\ after = 0
    /\ run = NoRun
    /\ ahead = NoRun.it

NextScenario ==
    \/ Add /\ UNCHANGED <<after, run, ahead>>
    \/ Remove /\ UNCHANGED <<after, run, ahead>>
    \/ Move /\ UNCHANGED <<after, run, ahead>>
    \/ GetStateScore /\ UNCHANGED <<after, run, ahead>>
    \/ GetStateScoreIterative /\ UNCHANGED <<after, run, ahead>>

SpecScenario == InitScenario /\ [][NextScenario]_vars

\* Queue q is a base queue [A, B] of two enemies, A's health 100 and B's 3,
\* and A has an available action.
ScenarioQueue(q) ==
    /\ ~Restricted(q)
    /\ Len(heap.bq[q].content) = 2
    /\ heap.bq[q].content[2] = heap.ch[heap.bq[q].content[1]].enemy
    /\ get_hp(heap, heap.bq[q].content[1]) = 100
    /\ get_hp(heap, heap.bq[q].content[2]) = 3
    /\ get_available_actions(heap, heap.bq[q].content[1]) # <<>>

\* The state after the front actor of queue q has made the move `token`.
AfterMove(q, token) == RemoveAndMove(heap, q, token).h

\* Every action available to A reduces B's health to zero and re-adds A at
\* the back of queue q.
EveryMoveWins(q) ==
    LET A == heap.bq[q].content[1]
        B == heap.bq[q].content[2]
        moves == get_available_actions(heap, A)
    IN \A i \in 1..Len(moves) :
          /\ get_hp(AfterMove(q, moves[i]), B) = 0
          /\ AfterMove(q, moves[i]).bq[q].content[Len(AfterMove(q, moves[i]).bq[q].content)] = A

\* Every action available to A leaves A's own health as it is.
EveryMoveKeepsHealth(q) ==
    LET A == heap.bq[q].content[1]
        moves == get_available_actions(heap, A)
    IN \A i \in 1..Len(moves) :
          get_hp(AfterMove(q, moves[i]), A) = get_hp(heap, A)

\* C24: on a base queue [A, B] with A's health 100 and B's health 3, where
\* every action available to A reduces B's health to zero, leaves A's own
\* health unchanged and re-adds A at the back, get_state_score and
\* get_state_score_iterative both return 100.
C24_ScenarioScore ==
    \A q \in Queues :
        (ScenarioQueue(q) /\ EveryMoveWins(q) /\ EveryMoveKeepsHealth(q))
        => /\ get_state_score(heap, q) = Ret(heap, 100)
           /\ get_state_score_iterative(heap, q) = Ret(heap, 100)

\* C24 as stated, whatever the moves do to A's own health.
C24_ScenarioScore_AsStated ==
    \A q \in Queues :
        (ScenarioQueue(q) /\ EveryMoveWins(q))
        => /\ get_state_score(heap, q) = Ret(heap, 100)
           /\ get_state_score_iterative(heap, q) = Ret(heap, 100)

\* The iterative engine has returned 100 on the scenario queue of an actor
\* with two available actions.
C24_Witness ==
    /\ last.op = "get_state_score_iterative" /\ last.exc = ""
    /\ ScenarioQueue(last.q) /\ EveryMoveWins(last.q) /\ EveryMoveKeepsHealth(last.q)
    /\ Len(get_available_actions(heap, heap.bq[last.q].content[1])) = 2
    /\ last.ret = <<100>>

\* The actions available to the head actor of queue q.
HeadActions(q) == get_available_actions(heap, peek(heap, q).ret)

EngineScore(engine, h, q) ==
    IF engine = "get_state_score"
    THEN get_state_score(h, q)
    ELSE get_state_score_iterative(h, q)

Engines == {"get_state_score", "get_state_score_iterative"}

\* The child of queue q by the move `token`: a clone of q on which the head
\* actor has made the move.  ret holds <<head, front, emptied>>: the actor
\* peek() returned before the move, the actor it returns after it, and
\* whether the move left the clone empty, peek() falling back to the
\* cached first participant.
Child(h, q, token) ==
    Bind(copy(h, q), LAMBDA bq_x :
    Bind(peek(bq_x.h, bq_x.ret), LAMBDA cur :
    Bind(RemoveAndMove(cur.h, bq_x.ret, token), LAMBDA m :
    Bind(peek(m.h, bq_x.ret), LAMBDA next_ :
        [h |-> next_.h, exc |-> "", q |-> bq_x.ret,
         ret |-> <<cur.ret, next_.ret, next_.h.bq[bq_x.ret].content = <<>>>>]))))

\* The score an engine gives the node of queue q: the terminal score seen
\* by the actor peek() returns when the queue is over, the engine's score
\* of the queue when it is not.
NodeScore(engine, h, q) ==
    Bind(peek(h, q), LAMBDA first_player :
    Bind(is_over(first_player.h, q), LAMBDA o :
        IF o.ret
        THEN TerminalScore(o.h, q, first_player.ret)
        ELSE EngineScore(engine, o.h, q)))

\* s(child): the engine's score of the child, negated when the front actor
\* after the move is not the head actor before it.
SignedScore(engine, h, q, token) ==
    Bind(Child(h, q, token), LAMBDA child :
    Bind(NodeScore(engine, child.h, child.q), LAMBDA score :
        Ret(score.h, IF child.ret[1] = child.ret[2]
                     THEN score.ret ELSE score.ret * (-1))))

\* C26: on a queue that is not over, the score of either engine is the
\* maximum over the head actor's available actions of s(child): the score
\* of the child when the front actor after the move is the head actor, minus
\* that score when it is another actor, the actor being the cached first
\* participant when the move empties the queue.
C26_SignRule ==
    \A q \in Queues : \A engine \in Engines :
        IsOverIs(q, FALSE)
        => LET moves == HeadActions(q)
               score == EngineScore(engine, heap, q)
           IN /\ score.exc = ""
              /\ \A i \in 1..Len(moves) :
                    /\ SignedScore(engine, heap, q, moves[i]).exc = ""
                    /\ score.ret >= SignedScore(engine, heap, q, moves[i]).ret
              /\ \E i \in 1..Len(moves) :
                    score.ret = SignedScore(engine, heap, q, moves[i]).ret

\* An engine has scored a queue that is not over, on which an action of the
\* head actor empties the queue, and peek() then falls back to the cached
\* first participant, which is not the head actor: the score of that child
\* is negated.
C26_Witness ==
    /\ last.op \in Engines /\ last.exc = ""
    /\ IsOverIs(last.q, FALSE)
    /\ \E i \in 1..Len(HeadActions(last.q)) :
          LET child == Child(heap, last.q, HeadActions(last.q)[i])
          IN /\ child.exc = "" /\ child.ret[3]
             /\ child.ret[1] # child.ret[2]
             /\ last.ret = <<NodeScore(last.op, child.h, child.q).ret * (-1)>>
             /\ last.ret # <<0>>

\* ------------------------------------- a run of the iterative engine
\* get_state_score_iterative taken one iteration of its while loop at a
\* time.  `run` holds the locals of the call in progress: the queue it was
\* called on, the engine state `it` (the heap with the copies made so far,
\* the StateTree nodes, the stack s and list_), and for every node the
\* number of times s.add was called on it.  `ahead` is the engine state
\* as the next iteration of the loop leaves it (the engine state itself
\* once the loop has ended).
NodeStatus(node) ==
    IF node.score # <<>> THEN "resolved"
    ELSE IF node.children # <<>> THEN "expanded"
    ELSE "unvisited"

\* The number of entries of items that are node n.
Occurrences(items, n) ==
    Cardinality({i \in 1..Len(items) : items[i] = n})

\* The s.add calls of one iteration counted into pushes: items are the
\* entries the iteration put on the stack, nodes the number of nodes after it.
Pushed(pushes, nodes, items) ==
    [n \in 1..nodes |->
        (IF n <= Len(pushes) THEN pushes[n] ELSE 0) + Occurrences(items, n)]

\* bq_c = battle_queue.copy(); first_state = StateTree(bq_c); s = Stack();
\* s.add(first_state); list_ = []
Ahead(it) == IF it.exc = "" /\ it.s # <<>> THEN IterStep(it) ELSE it

IterBegin ==
    /\ ~run.active
    /\ \E q \in Queues :
          LET it == IterStart(heap, q)
          IN /\ run' = [active |-> TRUE, q |-> q, it |-> it,
                        pushes |-> [n \in 1..Len(it.nodes) |-> 1]]
             /\ ahead' = Ahead(it)
    /\ UNCHANGED <<heap, last, after>>

\* while not s.is_empty(): the locals of the call after one more iteration
\* of the loop.
IterAdvance ==
    /\ run.active
    /\ run.it.exc = ""
    /\ run.it.s # <<>>
    /\ run' = [run EXCEPT !.it = ahead,
                          !.pushes = Pushed(@, Len(ahead.nodes),
                                            SubSeq(ahead.s, Len(run.it.s), Len(ahead.s)))]

\* One iteration of the loop.
IterNext ==
    /\ IterAdvance
    /\ ahead' = Ahead(ahead)
    /\ UNCHANGED <<heap, last, after>>

\* return list_[-1], or the exception that ended the call.
IterEnd(it) ==
    IF it.exc # ""
    THEN Raise(it.h, it.exc)
    ELSE IF it.list_ = <<>>
    THEN Raise(it.h, "IndexError")
    ELSE Ret(it.h, it.list_[Len(it.list_)])

IterReturn ==
    /\ run.active
    /\ run.it.exc # "" \/ run.it.s = <<>>
    /\ LET r == Collect(IterEnd(run.it), heap)
       IN heap' = r.h /\ last' = Call("get_state_score_iterative", run.q, None, r)
    /\ run' = NoRun
    /\ ahead' = NoRun.it
    /\ UNCHANGED after

\* The games the engine is run on.
IterGames ==
    {<<"Rogue", 100, 13, "Mage", 100, 5>>,
     <<"Vampire", 12, 20, "Mage", 9, 5>>}

InitIter ==
    /\ \E kind \in {"base", "restricted"}, g \in IterGames :
          heap = NewGame(kind, g[1], g[2], g[3], g[4], g[5], g[6])
    /\ last = NoCall
    /\ after = 0
    /\ run = NoRun
    /\ ahead = NoRun.it

\* bq.remove().attack() or bq.remove().special_attack(), recorded with the
\* None the move returns.
Play ==
    \E q \in Queues : \E token \in {"A", "S"} :
        LET p == peek(heap, q)
        IN /\ p.exc = "" /\ p.h.bq[q].content # <<>>
           /\ Has(get_available_actions(p.h, p.ret), token)
           /\ LET r == RemoveAndMove(heap, q, token)
              IN heap' = r.h /\ last' = Call("move", q, None, r)

\* The game moves on between the calls of the engine, never during one.
NextIter ==
    \/ ~run.active /\ Add /\ UNCHANGED <<after, run, ahead>>
    \/ ~run.active /\ Remove /\ UNCHANGED <<after, run, ahead>>
    \/ ~run.active /\ Play /\ UNCHANGED <<after, run, ahead>>
    \/ IterBegin
    \/ IterNext
    \/ IterReturn

SpecIter == InitIter /\ [][NextIter]_vars

\* The value the call in progress is about to return is the value of the
\* engine run in one piece, and `ahead` is one iteration ahead of the call.
IterAgrees ==
    /\ (run.active /\ (run.it.exc # "" \/ run.it.s = <<>>))
       => Collect(IterEnd(run.it), heap) = get_state_score_iterative(heap, run.q)
    /\ ahead = IF run.active THEN Ahead(run.it) ELSE NoRun.it

\* The node's queue is over: the node is a leaf of the search.
TerminalNode(it, n) == is_over(it.h, it.nodes[n].bq).ret

\* The changes of status one iteration of the loop may make to a node.
StatusStep(from, to, terminal) ==
    \/ to = from
    \/ from = "unvisited" /\ to = "expanded" /\ ~terminal
    \/ from = "expanded" /\ to = "resolved" /\ ~terminal
    \/ from = "unvisited" /\ to = "resolved" /\ terminal

\* C27: during one run of get_state_score_iterative every node goes from
\* unvisited to expanded to resolved in that order only (a node whose queue
\* is over goes from unvisited to resolved); no node is put on the stack
\* more than twice, and when the stack is empty every node is resolved, a
\* terminal node having been put on the stack exactly once and any other
\* node exactly twice.
C27_NodeLifecycle ==
    [][(run.active /\ run'.active)
       => /\ \A n \in 1..Len(run.it.nodes) :
                StatusStep(NodeStatus(run.it.nodes[n]), NodeStatus(run'.it.nodes[n]),
                           TerminalNode(run.it, n))
          /\ \A n \in 1..Len(run'.it.nodes) :
                /\ run'.pushes[n] <= 2
                /\ n > Len(run.it.nodes) => NodeStatus(run'.it.nodes[n]) = "unvisited"
                /\ (run'.it.exc = "" /\ run'.it.s = <<>>)
                   => /\ NodeStatus(run'.it.nodes[n]) = "resolved"
                      /\ run'.pushes[n] = IF TerminalNode(run'.it, n) THEN 1 ELSE 2]_vars

C27_Witness ==
    /\ run.active
    /\ run.it.exc = ""
    /\ run.it.s = <<>>
    /\ Len(run.it.nodes) >= 7
    /\ \E n \in 1..Len(run.it.nodes) : TerminalNode(run.it, n) /\ run.pushes[n] = 1
    /\ \E n \in 2..Len(run.it.nodes) : ~TerminalNode(run.it, n) /\ run.pushes[n] = 2

\* state = s.remove(): the node the next iteration of the loop takes.
TopOfStack == run.it.s[Len(run.it.s)]

\* C28: whenever an iteration of the loop takes an expanded node off the
\* stack, every child of the node has a score and the aggregation raises
\* nothing; and the score appended to list_ by the iteration that empties
\* the stack is the score of the root, which is then the last of list_.
C28_PostOrder ==
    [][(run.active /\ run'.active /\ run.it.s # <<>>)
       => /\ NodeStatus(run.it.nodes[TopOfStack]) = "expanded"
             => /\ \A i \in 1..Len(run.it.nodes[TopOfStack].children[1]) :
                      run.it.nodes[run.it.nodes[TopOfStack].children[1][i]].score # <<>>
                /\ run'.it.exc = ""
                /\ NodeStatus(run'.it.nodes[TopOfStack]) = "resolved"
          /\ (run'.it.s = <<>> /\ run'.it.exc = "" /\ run'.it.list_ # <<>>)
             => /\ TopOfStack = 1
                /\ Len(run'.it.list_) = Len(run.it.list_) + 1
                /\ run'.it.list_[Len(run'.it.list_)] = run'.it.nodes[1].score[1]]_vars

C28_Witness ==
    /\ run.active
    /\ run.it.exc = ""
    /\ run.it.s = <<1>>
    /\ NodeStatus(run.it.nodes[1]) = "expanded"
    /\ Len(run.it.nodes[1].children[1]) = 2
    /\ Len(run.it.list_) >= 2

\* The loop of get_state_score_iterative runs on for as long as the stack
\* is not empty: the code is sequential and nothing suspends it.  Of the
\* steps of NextIter only IterNext changes `run` while the loop runs, so
\* the condition is that of weak fairness of IterNext.
SpecIterFair == SpecIter /\ WF_run(IterAdvance)

\* The resources the two participants of queue q have left.
TotalSp(h, q) ==
    IF h.bq[q].p1 = None THEN 0
    ELSE h.ch[h.bq[q].p1].sp + h.ch[h.bq[q].p2].sp

\* Every branch of get_state_score on queue q reaches a queue that is over
\* within n moves: the queue is over, or each move of the head actor leads
\* to a clone whose branches end within n - 1 moves.
RECURSIVE BranchesEnd(_, _, _)
BranchesEnd(h, q, n) ==
    Let(peek(h, q), LAMBDA first_player :
        \/ is_over(first_player.h, q).ret
        \/ /\ n > 0
           /\ \A i \in 1..Len(get_available_actions(h, first_player.ret)) :
                 Let(Child(h, q, get_available_actions(h, first_player.ret)[i]), LAMBDA child :
                     /\ child.exc = ""
                     /\ TotalSp(child.h, child.q) < TotalSp(h, q)
                     /\ BranchesEnd(child.h, child.q, n - 1)))

\* C29: the moves of the characters each costing a positive amount of the
\* actor's resources and being available only while the resources cover
\* the cost, every branch of get_state_score from a queue that has its
\* participants reaches a queue that is over, within as many moves as the
\* participants have resources, each move leaving them with less; and a
\* run of get_state_score_iterative that has reached its loop eventually
\* has its stack empty.
C29_Termination ==
    /\ [](\A q \in Queues : heap.bq[q].p1 # None => BranchesEnd(heap, q, TotalSp(heap, q)))
    /\ (run.active /\ run.it.exc = "")
          ~> (run.active /\ run.it.exc = "" /\ run.it.s = <<>>)

C29_Witness ==
    /\ run.active
    /\ run.it.exc = ""
    /\ run.it.s = <<>>
    /\ Len(run.it.list_) >= 3
    /\ TotalSp(heap, run.q) >= 15

\* The operations of a queue that a call record names.
QueueOperations ==
    {"add", "remove", "peek", "is_empty", "is_over", "get_winner", "move"}

\* self._p1 and self._p2 of queue q are in h2 what they are in h1.
SameParticipants(h2, h1, q) ==
    /\ h2.bq[q].p1 = h1.bq[q].p1
    /\ h2.bq[q].p2 = h1.bq[q].p2

\* C30: once the two cached participants of a queue are set, no add,
\* remove, peek, is_empty, is_over or get_winner on the queue (nor the add
\* a move of a character makes) changes them, and copy() leaves them as
\* they are in the queue it is called on, for both queue variants.
C30_ParticipantsKept ==
    [][\A q \in Queues :
          heap.bq[q].p1 # None
          => /\ SameParticipants(copy(heap, q).h, heap, q)
             /\ (last'.q = q /\ last'.op \in QueueOperations)
                => SameParticipants(heap', heap, q)]_vars

C30_Witness ==
    /\ last.op = "add"
    /\ last.exc = ""
    /\ last.len >= 2
    /\ heap.bq[last.q].kind = "restricted"
    /\ heap.bq[last.q].p1 # None
    /\ heap.bq[last.q].p1 # last.arg
    /\ heap.bq[last.q].content[Len(heap.bq[last.q].content)] = last.arg

\* The clone copy() makes of character c of queue q in heap h: p1_copy for
\* the cached first participant, p2_copy for any other, the two being the
\* first and the second object the copy creates.
CloneIn(h, q, c) == IF c = h.bq[q].p1 THEN Len(h.ch) + 1 ELSE Len(h.ch) + 2

\* c = q.copy(); c.peek() returns the clone of the actor q.peek() returns.
CopyPeeksClone(h, q) ==
    Let(peek(h, q), LAMBDA front :
    Let(copy(h, q), LAMBDA c :
    Let(peek(c.h, c.ret), LAMBDA cfront :
        /\ front.exc = "" /\ c.exc = "" /\ cfront.exc = ""
        /\ cfront.ret = CloneIn(h, q, front.ret)
        /\ CloneOf(cfront.h, cfront.ret, h, front.ret))))

\* C31: for every queue that has had an add, of either variant, the copy's
\* peek() returns the clone of the actor the queue's peek() returns, the
\* clone of the cached first participant when the queue is empty after
\* the purge.
C31_CopyPeek ==
    \A q \in Queues : heap.bq[q].p1 # None => CopyPeeksClone(heap, q)

\* An admission-controlled queue which is empty after the purge while its
\* first entry is the second participant: peek() returns the first
\* participant, the copy's peek() the clone of the second.
C31_Witness ==
    \E q \in Queues :
        /\ Restricted(q)
        /\ heap.bq[q].p1 # None
        /\ heap.bq[q].content # <<>>
        /\ heap.bq[q].content[1] = heap.bq[q].p2
        /\ peek(heap, q).ret = heap.bq[q].p1
        /\ peek(copy(heap, q).h, copy(heap, q).ret).ret = Len(heap.ch) + 2

\* The moves of the actor peek() returns on the queue of node n.
NodeHeadActions(it, n) ==
    Let(peek(it.h, it.nodes[n].bq), LAMBDA first_player :
        IF first_player.ret = None THEN <<>>
        ELSE get_available_actions(first_player.h, first_player.ret))

\* C32: in every queue reached by a search which is not over after the
\* purge, the actor peek() returns has at least one available move; no
\* node is expanded into no children, the iterative engine never fails on
\* the children of a node and the recursive one never takes the maximum of
\* an empty list.
C32_HeadCanMove ==
    /\ run.it.exc \notin {"TypeError", "ValueError"}
    /\ \A n \in 1..Len(run.it.nodes) :
          ~TerminalNode(run.it, n)
          => /\ NodeHeadActions(run.it, n) # <<>>
             /\ NodeStatus(run.it.nodes[n]) # "unvisited"
                => /\ run.it.nodes[n].children # <<>>
                   /\ Len(run.it.nodes[n].children[1]) = Len(NodeHeadActions(run.it, n))
    /\ \A q \in Queues : get_state_score(heap, q).exc # "ValueError"

\* A search is under way from a queue whose front entries are spent: the
\* root is not over, and is only purged when the loop first takes it.
C32_Witness ==
    /\ run.active
    /\ run.it.exc = ""
    /\ Len(run.it.nodes) = 1
    /\ ~TerminalNode(run.it, 1)
    /\ get_available_actions(run.it.h, Head(run.it.h.bq[run.it.nodes[1].bq].content)) = <<>>

\* Queue q is in h2 what it is in h1 with its k front entries dropped and
\* `added` entries appended: the entries that stay keep their order and
\* each its flag, and every entry has a flag.
EntriesKept(h2, h1, q, k, added) ==
    /\ k <= Len(h1.bq[q].content)
    /\ Len(h2.bq[q].content) = Len(h1.bq[q].content) - k + added
    /\ Len(h2.bq[q].able_to_add) = Len(h2.bq[q].content)
    /\ \A i \in 1..(Len(h1.bq[q].content) - k) :
          /\ h2.bq[q].content[i] = h1.bq[q].content[k + i]
          /\ h2.bq[q].able_to_add[i] = h1.bq[q].able_to_add[k + i]

\* C33: on an admission-controlled queue, add drops nothing and appends
\* at most one entry with its flag; a remove that returns drops one or more
\* front entries (the purged ones and the one returned) and appends
\* nothing; peek, is_empty, is_over and get_winner only drop purged front
\* entries; a move of a character is a remove followed by adds.  In each
\* case the entries that stay in the queue keep their flags and their
\* order.
C33_FlagsKept ==
    [][\A q \in Queues :
          (Restricted(q) /\ last'.q = q /\ last'.op \in QueueOperations)
          => \E k \in 0..Len(heap.bq[q].content), added \in 0..3 :
                /\ EntriesKept(heap', heap, q, k, added)
                /\ last'.op = "add" => k = 0 /\ added <= 1
                /\ last'.op \in {"remove", "peek", "is_empty", "is_over", "get_winner"}
                   => added = 0
                /\ (last'.op \in {"remove", "move"} /\ last'.exc = "") => k >= 1]_vars

\* A remove has purged a spent front entry and returned the next, and the
\* entries left are flagged differently.
C33_Witness ==
    /\ last.op = "remove"
    /\ last.exc = ""
    /\ Restricted(last.q)
    /\ last.len >= Len(heap.bq[last.q].content) + 2
    /\ Len(heap.bq[last.q].content) >= 1
    /\ \E i \in 1..Len(heap.bq[last.q].able_to_add) : ~heap.bq[last.q].able_to_add[i]

\* The first k entries of queue q are spent and entry k + 1 is not.
SpentFront(h, q, k) ==
    /\ k < Len(h.bq[q].content)
    /\ \A i \in 1..k : get_available_actions(h, h.bq[q].content[i]) = <<>>
    /\ get_available_actions(h, h.bq[q].content[k + 1]) # <<>>

\* C34: on a base queue add appends its argument at the back of the
\* entries, leaving the entries before it, the characters and the cached
\* participants once set as they are; and a remove that returns, returns
\* the first entry whose actor has an available move, dropping it and the
\* spent entries in front of it and nothing else.
C34_Fifo ==
    [][\A q \in Queues :
          (~Restricted(q) /\ last'.q = q)
          => /\ last'.op = "add"
                => /\ last'.exc = ""
                   /\ heap'.bq[q].content = Append(heap.bq[q].content, last'.arg)
                   /\ heap'.ch = heap.ch
                   /\ heap.bq[q].p1 # None => SameParticipants(heap', heap, q)
             /\ (last'.op = "remove" /\ last'.exc = "")
                => \E k \in 0..Len(heap.bq[q].content) :
                      /\ SpentFront(heap, q, k)
                      /\ last'.ret = <<heap.bq[q].content[k + 1]>>
                      /\ heap'.bq[q].content =
                            SubSeq(heap.bq[q].content, k + 2, Len(heap.bq[q].content))
                      /\ heap'.ch = heap.ch]_vars

\* A remove on a base queue has skipped a spent entry and returned the
\* entry added after it, entries added later staying behind.
C34_Witness ==
    /\ last.op = "remove"
    /\ last.exc = ""
    /\ ~Restricted(last.q)
    /\ Len(heap.bq[last.q].content) >= 1
    /\ last.len = Len(heap.bq[last.q].content) + 2
    /\ last.ret[1] # heap.bq[last.q].content[1]

\* ------------------------------------------- games with a Sorcerer
\* A Sorcerer, given the default skill decision tree, against a Rogue or a
\* Vampire on a queue of either variant: the class and the resource pool
\* of the first and of the second character.
SorcererGames ==
    {<<"Sorcerer", 40, "Rogue", 6>>, <<"Vampire", 20, "Sorcerer", 35>>}

InitSorcerer ==
    /\ \E kind \in {"base", "restricted"}, g \in SorcererGames :
          LET game == NewGame(kind, g[1], 100, g[2], g[3], 100, g[4])
          IN heap = [ch |-> game.ch, bq |-> game.bq, tree |-> create_default_tree]
    /\ last = NoCall
    /\ after = 0
    /\ run = NoRun
    /\ ahead = NoRun.it

\* s.special_attack(), called on a Sorcerer that can afford it whatever
\* its queue holds and wherever the Sorcerer is in it.
Cast ==
    \E c \in 1..Len(heap.ch) :
        /\ heap.ch[c].cls = "Sorcerer"
        /\ Has(get_available_actions(heap, c), "S")
        /\ LET r == special_attack(heap, c)
           IN heap' = r.h /\ last' = Call("special_attack", heap.ch[c].battle_queue, c, r)

NextSorcerer ==
    \/ Add /\ UNCHANGED <<after, run, ahead>>
    \/ Remove /\ UNCHANGED <<after, run, ahead>>
    \/ Move /\ UNCHANGED <<after, run, ahead>>
    \/ Cast /\ UNCHANGED <<after, run, ahead>>

SpecSorcerer == InitSorcerer /\ [][NextSorcerer]_vars

\* C35: the special action of a Sorcerer, called on the Sorcerer directly
\* or as the move of the head of the queue, raises nothing and leaves the
\* caster's queue holding exactly the caster, its target and the caster,
\* whatever the queue held; on an admission-controlled queue the three
\* flags are true.
C35_SorcererSpecial ==
    [][\A q \in Queues : \A c \in 1..Len(heap.ch) :
          (/\ last'.q = q
           /\ heap.ch[c].cls = "Sorcerer"
           /\ \/ last'.op = "special_attack" /\ last'.arg = c
              \/ last'.op = "move" /\ last'.ret = <<"S">> /\ peek(heap, q).ret = c)
          => /\ last'.exc = ""
             /\ heap'.bq[q].content = <<c, heap.ch[c].enemy, c>>
             /\ Restricted(q) => heap'.bq[q].able_to_add = <<TRUE, TRUE, TRUE>>]_vars

\* The special action has been called on a full admission-controlled queue
\* whose back entry could not add.
C35_Witness ==
    /\ last.op = "special_attack"
    /\ last.exc = ""
    /\ last.len = MaxLen
    /\ Restricted(last.q)
    /\ heap.bq[last.q].content[1] = last.arg

\* ----------------------------------------------- picking from a tree
\* Two Vampires on a queue, as in the doctests of get_priorities and
\* pick_skill, with their health and resource pools set to values on both
\* sides of the thresholds of the conditions, and a tree whose priority
\* numbers are unique: the default tree, a tree of one node, and a tree
\* whose root holds the smallest number and always passes.
InitTree ==
    /\ \E hp1 \in {20, 50, 55, 92}, sp1 \in {20, 50}, hp2 \in {20, 50}, sp2 \in {40, 50} :
       \E t \in {create_default_tree,
                 <<TreeNode("RogueAttack", "f_leaf", 1, <<>>)>>,
                 <<TreeNode("MageSpecial", "f_leaf", 1, <<2, 3>>),
                   TreeNode("MageAttack", "f2", 4, <<4>>),
                   TreeNode("RogueAttack", "f1", 3, <<>>),
                   TreeNode("RogueSpecial", "f5", 2, <<>>)>>} :
          LET game == NewGame("base", "Vampire", hp1, sp1, "Vampire", hp2, sp2)
          IN heap = [ch |-> game.ch, bq |-> game.bq, tree |-> t]
    /\ last = NoCall
    /\ after = 0
    /\ run = NoRun
    /\ ahead = NoRun.it

\* t.pick_skill(c, c2), either character being the caster.
Pick ==
    \E caster \in 1..Len(heap.ch) :
        LET r == pick_skill(heap.tree, heap, caster, heap.ch[caster].enemy)
        IN heap' = r.h /\ last' = Call("pick_skill", heap.ch[caster].battle_queue, caster, r)

NextTree ==
    \/ Pick /\ UNCHANGED <<after, run, ahead>>

SpecTree == InitTree /\ [][NextTree]_vars

\* The frontier of tree t for (caster, target): the nodes all of whose
\* ancestors' conditions hold and that are leaves or whose own condition
\* fails.
Frontier(t, h, caster, target) ==
    LET Holds(n) == condition(t[n].condition, h, caster, target)
        IsChild(n, m) == \E i \in 1..Len(t[m].children) : t[m].children[i] = n
        RECURSIVE AncestorsHold(_)
        AncestorsHold(n) ==
            \A m \in 1..Len(t) : IsChild(n, m) => Holds(m) /\ AncestorsHold(m)
    IN {n \in 1..Len(t) : AncestorsHold(n) /\ (t[n].children = <<>> \/ ~Holds(n))}

\* C36: on a tree whose priority numbers are unique, pick_skill returns,
\* without raising, the skill of the frontier node whose priority number is
\* the smallest of the frontier.
C36_PickSkill ==
    last.op = "pick_skill" =>
        LET t == heap.tree
            frontier == Frontier(t, heap, last.arg, heap.ch[last.arg].enemy)
        IN /\ last.exc = ""
           /\ \E n \in frontier :
                 /\ \A m \in frontier : t[n].priority <= t[m].priority
                 /\ last.ret = <<t[n].value>>

\* A pick that returned the skill of an inner node whose condition fails,
\* while a node outside the frontier has a smaller priority number and a
\* different skill.
C36_Witness ==
    /\ last.op = "pick_skill"
    /\ LET t == heap.tree
           frontier == Frontier(t, heap, last.arg, heap.ch[last.arg].enemy)
       IN \E n \in frontier :
             /\ t[n].children # <<>>
             /\ \A m \in frontier : t[n].priority <= t[m].priority
             /\ last.ret = <<t[n].value>>
             /\ \E m \in (1..Len(t)) \ frontier :
                   t[m].priority < t[n].priority /\ t[m].value # t[n].value

====
